---- MODULE Spec2Model ----
(***************************************************************************)
(* A model of the cloudflare-blog REST API: the relational store (users,   *)
(* posts/pages, taxonomy links and counters, comments, site settings), the *)
(* process-wide settings cache, the bearer tokens in circulation, and one  *)
(* action per HTTP handler.  Every request is handled to completion in one *)
(* step; `req` and `resp` hold the request just handled and its response.  *)
(***************************************************************************)
EXTENDS Integers, Sequences, FiniteSets, TLC

VARIABLES
    users,          \* users table: id -> row
    nextUserId,     \* AUTOINCREMENT sequence of users.id
    tokens,         \* JWT payloads issued so far (login / register)
    siteSettings,   \* site_settings table: setting_key -> setting_value
    settingsCache,  \* utils.ts settingsCache (NoCache when null)
    cacheTimestamp, \* utils.ts cacheTimestamp
    now,            \* Date.now()
    posts,          \* posts table (posts and pages): id -> row
    nextPostId,     \* AUTOINCREMENT sequence of posts.id
    postCategories, \* post_categories rows <<post_id, category_id>>
    postTags,       \* post_tags rows <<post_id, tag_id>>
    catCount,       \* categories.count, by category id
    tagCount,       \* tags.count, by tag id
    comments,       \* comments table: id -> row
    nextCommentId,  \* AUTOINCREMENT sequence of comments.id
    req,            \* the request handled by the last step
    resp,           \* its response
    sent,           \* webhook events delivered while handling it
    linkRows,       \* links table: id -> row
    nextLinkId,     \* AUTOINCREMENT sequence of links.id
    linkCatCount,   \* link_categories.count, by link category id
    inflight,       \* requests suspended at an await, by client
    network,        \* how the next lookup, signing and fetch of sendWebhook end
    moments,        \* moments table: id -> row
    nextMomentId,   \* AUTOINCREMENT sequence of moments.id
    media,          \* media table: id -> row
    nextMediaId,    \* AUTOINCREMENT sequence of media.id
    bucket          \* keys of the objects in the MEDIA bucket

vars == <<users, nextUserId, tokens, siteSettings, settingsCache, cacheTimestamp,
          now, posts, nextPostId, postCategories, postTags, catCount, tagCount,
          comments, nextCommentId, req, resp, sent, linkRows, nextLinkId, linkCatCount,
          inflight, network, moments, nextMomentId, media, nextMediaId, bucket>>

dbUsers    == <<users, nextUserId>>
dbSettings == <<siteSettings>>
dbPosts    == <<posts, nextPostId, postCategories, postTags, catCount, tagCount>>
dbComments == <<comments, nextCommentId>>
dbLinks    == <<linkRows, nextLinkId, linkCatCount>>
dbMedia    == <<moments, nextMomentId, media, nextMediaId, bucket>>
\* everything a handler can write to storage
stored     == <<users, nextUserId, siteSettings, posts, nextPostId, postCategories,
                postTags, catCount, tagCount, comments, nextCommentId, linkRows, nextLinkId,
                linkCatCount, moments, nextMomentId, media, nextMediaId, bucket>>

(***************************************************************************)
(* Bounds of the model.                                                    *)
(***************************************************************************)
MaxUsers    == 3   \* users rows ever inserted
MaxStaff    == 6   \* users rows ever inserted on the staffed site
MaxTokens   == 3   \* tokens in circulation
MaxPosts    == 3   \* posts rows ever inserted
MaxAuthored == 2   \* posts rows inserted in the runs over every bearer
MaxComments == 2   \* comments rows ever inserted
MaxCount    == 3   \* cap of the denormalized counters
MaxViews    == 1   \* cap of posts.view_count
MaxNow      == 2   \* clock ticks
MaxClients  == 2   \* requests in flight at the same time
MaxLinks    == 2   \* links rows ever inserted
MaxMoments  == 1   \* moments rows ever inserted
MaxMedia    == 1   \* media rows ever inserted
MaxFiled    == 1   \* posts rows inserted in the runs of partial updates

(***************************************************************************)
(* Values.                                                                 *)
(***************************************************************************)
Undefined == "undefined"      \* a body field or query parameter that is absent
Null      == "null"           \* SQL NULL / JS null in a text column
Clients   == 1..MaxClients
\* no request is suspended: every client is idle
Idle == [pc |-> "idle"]
NoneInFlight == [c \in Clients |-> Idle]
Roles     == {"administrator", "editor", "author", "contributor", "subscriber"}

\* c.get('user') when no middleware has set it
NoUser == [userId |-> 0, role |-> "none"]

\* the Authorization header of a request: none, a string that does not verify
\* (forged or expired), or a token this server issued
NoToken  == [kind |-> "none", userId |-> 0, role |-> "none"]
BadToken == [kind |-> "bad", userId |-> 0, role |-> "none"]
Jwt(payload) == [kind |-> "jwt", userId |-> payload.userId, role |-> payload.role]
Bearers  == {NoToken, BadToken} \cup {Jwt(p) : p \in tokens}

Response(status, code, body) == [status |-> status, code |-> code, body |-> body]
\* createWPError
createWPError(code, status) == Response(status, code, <<>>)

(***************************************************************************)
(* auth.ts                                                                 *)
(***************************************************************************)
\* generateToken: the payload carries the role the row has when it is signed
generateToken(id, row) == [userId |-> id, role |-> row.role]

\* verifyToken: the payload, or NoUser for a token that does not verify
verifyToken(token) ==
    IF token.kind = "jwt" THEN [userId |-> token.userId, role |-> token.role] ELSE NoUser

\* authMiddleware: the error response that ends the request, or "next"
authMiddleware(token) ==
    IF token.kind = "none" THEN createWPError("rest_not_logged_in", 401)
    ELSE IF verifyToken(token) = NoUser THEN createWPError("rest_invalid_token", 401)
    ELSE Response(0, "next", <<>>)

\* the user authMiddleware / optionalAuthMiddleware stores in the context
contextUser(token) == verifyToken(token)

\* Faulty variant: any authenticated user passes, whatever the role
requireRoleAnyUser(user, allowedRoles) ==
    IF user = NoUser THEN createWPError("rest_not_logged_in", 401)
    ELSE Response(0, "next", <<>>)

\* requireRole(...allowedRoles), run on the context's user
requireRole(user, allowedRoles) ==
    IF user = NoUser THEN createWPError("rest_not_logged_in", 401)
    ELSE IF user.role \notin allowedRoles THEN createWPError("rest_forbidden", 403)
    ELSE Response(0, "next", <<>>)

\* Faulty variant: publishing is open to every authenticated user
canPublishPostAnyRole(user) == user # NoUser

\* canPublishPost
canPublishPost(user) ==
    IF user = NoUser THEN FALSE
    ELSE user.role \in {"administrator", "editor", "author"}

\* Faulty variant: authors and contributors may edit posts they do not own
canEditPostAnyAuthor(user, postId) ==
    IF user = NoUser THEN FALSE
    ELSE user.role \in {"administrator", "editor", "author", "contributor"}

\* canEditPost
canEditPost(user, postId) ==
    IF user = NoUser THEN FALSE
    ELSE IF user.role = "administrator" \/ user.role = "editor" THEN TRUE
    ELSE IF user.role = "author" \/ user.role = "contributor"
         THEN postId \in DOMAIN posts /\ posts[postId].author_id = user.userId
    ELSE FALSE

\* Faulty variant: deleting follows the ownership rule of editing
canDeletePostAsEdit(user, postId) == canEditPost(user, postId)

\* canDeletePost
canDeletePost(user, postId) ==
    IF user = NoUser THEN FALSE
    ELSE IF user.role = "administrator" \/ user.role = "editor" THEN TRUE
    ELSE FALSE

(***************************************************************************)
(* utils.ts: settings cache                                                *)
(***************************************************************************)
CACHE_TTL == 60000
TickMs    == CACHE_TTL \div 2   \* the clock advances in steps of TickMs
NoCache   == [present |-> FALSE, map |-> <<>>]

DefaultSettings ==
    [k \in {"site_title", "site_description", "site_url", "admin_email"} |->
        CASE k = "site_title" -> "CFBlog"
          [] k = "site_description" -> "desc"
          [] k = "site_url" -> "http://localhost:8787"
          [] k = "admin_email" -> "admin@example.com"]

\* Faulty variant: the rows of the query alone
SettingsOfRowsOnly(rows) == rows

\* the settings object: the hardcoded defaults, overwritten by every row of the query
SettingsOf(rows) ==
    [k \in DOMAIN DefaultSettings \cup DOMAIN rows |->
        IF k \in DOMAIN rows THEN rows[k] ELSE DefaultSettings[k]]

\* the rows of site_settings merged over the hardcoded defaults
MergedSettings == SettingsOf(siteSettings)

\* Faulty variant: a cached map is served whatever its age
CacheNeverExpires == settingsCache.present

CacheFresh == settingsCache.present /\ (now - cacheTimestamp) < CACHE_TTL

\* getSiteSettings: the map it returns
getSiteSettings == IF CacheFresh THEN settingsCache.map ELSE MergedSettings

\* getSiteSettings: what it leaves in the cache
GetSiteSettingsEffect ==
    IF CacheFresh
    THEN UNCHANGED <<settingsCache, cacheTimestamp>>
    ELSE /\ settingsCache' = [present |-> TRUE, map |-> MergedSettings]
         /\ cacheTimestamp' = now

\* clearSettingsCache
clearSettingsCache ==
    /\ settingsCache' = NoCache
    /\ cacheTimestamp' = 0

(***************************************************************************)
(* utils.ts: formatters                                                    *)
(***************************************************************************)
\* text.toLowerCase().trim(), on the e-mail addresses of the model
LowerTrim(text) == IF text = " Bob@X.io " THEN "bob@x.io" ELSE text

\* md5: the digest of the lower-cased, trimmed text
md5(text) == <<"md5", LowerTrim(text)>>

\* formatUserResponse
formatUserResponse(id, user, isAdmin) ==
    LET response == [id |-> id, slug |-> user.username, role |-> user.role,
                     avatar |-> md5(user.email)]
    IN  IF isAdmin
        THEN [id |-> response.id, slug |-> response.slug, role |-> response.role,
              avatar |-> response.avatar, email |-> user.email]
        ELSE response

(***************************************************************************)
(* utils.ts: slugs.  Text that is transformed character by character is a  *)
(* sequence of one-character strings; Join gives the stored string.        *)
(***************************************************************************)
UndefinedText == <<"undefined">>   \* an absent text field of a body

RECURSIVE Join(_)
Join(chars) == IF chars = <<>> THEN "" ELSE Head(chars) \o Join(Tail(chars))

Letters == {"a", "b", "c", "d", "e", "f", "g", "h", "i", "j", "k", "l", "m", "n",
            "o", "p", "q", "r", "s", "t", "u", "v", "w", "x", "y", "z"}
Digits  == {"0", "1", "2", "3", "4", "5", "6", "7", "8", "9"}

\* String.prototype.toLowerCase, on the characters the model uses
Lower(ch) ==
    CASE ch = "H" -> "h" [] ch = "W" -> "w" [] ch = "S" -> "s" [] OTHER -> ch
toLowerCase(chars) == [i \in 1..Len(chars) |-> Lower(chars[i])]

IsSpace(ch) == ch = " "

\* String.prototype.trim
RECURSIVE TrimStart(_)
TrimStart(chars) ==
    IF chars # <<>> /\ IsSpace(Head(chars)) THEN TrimStart(Tail(chars)) ELSE chars
RECURSIVE TrimEnd(_)
TrimEnd(chars) ==
    IF chars # <<>> /\ IsSpace(chars[Len(chars)])
    THEN TrimEnd(SubSeq(chars, 1, Len(chars) - 1)) ELSE chars
trim(chars) == TrimEnd(TrimStart(chars))

\* replace(/[sep]+/g, '-'): every maximal run of separator characters becomes one hyphen
RECURSIVE CollapseRuns(_, _)
CollapseRuns(chars, sep) ==
    IF chars = <<>> THEN <<>>
    ELSE IF Head(chars) \in sep
         THEN IF Len(chars) > 1 /\ chars[2] \in sep
              THEN CollapseRuns(Tail(chars), sep)
              ELSE <<"-">> \o CollapseRuns(Tail(chars), sep)
         ELSE <<Head(chars)>> \o CollapseRuns(Tail(chars), sep)

\* replace(/^-+|-+$/g, '')
RECURSIVE StripHyphens(_)
StripHyphens(chars) ==
    IF chars # <<>> /\ Head(chars) = "-" THEN StripHyphens(Tail(chars))
    ELSE IF chars # <<>> /\ chars[Len(chars)] = "-"
         THEN StripHyphens(SubSeq(chars, 1, Len(chars) - 1))
    ELSE chars

IsWordOrSpaceOrHyphen(ch) == ch \in Letters \cup Digits \cup {"_", " ", "-"}
IsSlugChar(ch) == ch \in Letters \cup Digits \cup {" ", "-"}

\* generateSlug
generateSlug(title) ==
    Join(StripHyphens(CollapseRuns(
        SelectSeq(trim(toLowerCase(title)), IsWordOrSpaceOrHyphen), {" ", "_", "-"})))

\* the AI binding: it throws, or answers with some text
AiThrows == <<"throws">>

\* replace(/^slug:\s*/i, '')
DropSlugPrefix(chars) ==
    IF Len(chars) >= 5 /\ SubSeq(chars, 1, 5) = <<"s", "l", "u", "g", ":">>
    THEN TrimStart(SubSeq(chars, 6, Len(chars)))
    ELSE chars

\* the cleaned AI answer of generateSlugWithAI
CleanAiSlug(answer) ==
    StripHyphens(CollapseRuns(CollapseRuns(
        SelectSeq(DropSlugPrefix(toLowerCase(trim(answer))), IsSlugChar), {" "}), {"-"}))

\* generateSlugWithAI
generateSlugWithAI(ai, title) ==
    IF ai = AiThrows THEN generateSlug(title)
    ELSE IF Len(CleanAiSlug(ai)) < 2 THEN generateSlug(title)
    ELSE Join(CleanAiSlug(ai))

\* SELECT id FROM posts WHERE slug = ?
SlugExists(slug) == \E p \in DOMAIN posts : posts[p].slug = slug

\* Faulty variant: the suffix is appended to the last candidate, not to the base
RECURSIVE UniqueSlugLoopChained(_, _, _)
UniqueSlugLoopChained(baseSlug, postSlug, counter) ==
    IF SlugExists(postSlug)
    THEN UniqueSlugLoopChained(baseSlug, postSlug \o "-" \o ToString(counter), counter + 1)
    ELSE [slug |-> postSlug, lookups |-> counter]

\* the loop that makes a slug unique: [slug, lookups] when it ends
RECURSIVE UniqueSlugLoop(_, _, _)
UniqueSlugLoop(baseSlug, postSlug, counter) ==
    IF SlugExists(postSlug)
    THEN UniqueSlugLoop(baseSlug, baseSlug \o "-" \o ToString(counter), counter + 1)
    ELSE [slug |-> postSlug, lookups |-> counter]

EnsureUniqueSlug(postSlug) == UniqueSlugLoop(postSlug, postSlug, 1)

(***************************************************************************)
(* utils.ts: webhooks                                                      *)
(***************************************************************************)
\* A webhook_events value is the sequence of its pieces: event names, "," and " ".
\* webhookEvents.split(',')
RECURSIVE SplitCommas(_)
SplitCommas(pieces) ==
    IF \A i \in DOMAIN pieces : pieces[i] # "," THEN <<pieces>>
    ELSE LET comma == CHOOSE i \in DOMAIN pieces :
                          pieces[i] = "," /\ \A k \in 1..(i - 1) : pieces[k] # ","
         IN  <<SubSeq(pieces, 1, comma - 1)>>
                 \o SplitCommas(SubSeq(pieces, comma + 1, Len(pieces)))

\* Faulty variant: an empty allow-list enables every event
EnabledEventsOrAll(webhookEvents) ==
    IF webhookEvents = <<>>
    THEN {"post.created", "post.updated", "post.published", "post.deleted",
          "comment.created", "comment.updated", "comment.deleted"}
    ELSE LET parts == SplitCommas(webhookEvents)
         IN  {Join(trim(parts[i])) : i \in DOMAIN parts}

\* webhookEvents.split(',').map(e => e.trim())
EnabledEvents(webhookEvents) ==
    LET parts == SplitCommas(webhookEvents)
    IN  {Join(trim(parts[i])) : i \in DOMAIN parts}

Setting(settings, key) == IF key \in DOMAIN settings THEN settings[key] ELSE ""

\* settings.webhook_events || ''
EventsSetting(settings) ==
    IF "webhook_events" \in DOMAIN settings THEN settings["webhook_events"] ELSE <<>>

\* !text || text.trim() === ''
Blank(text) == text \in {"", " "}

\* how the awaits inside sendWebhook can end
Deliveries == {"ok", "non-2xx", "network-error", "lookup-error", "sign-error"}

\* the map sendWebhook gets from getSiteSettings, which answers a failed query
\* with the defaults
WebhookSettings(settings) == IF network = "lookup-error" THEN DefaultSettings ELSE settings

\* sendWebhook reaches the signing block
WebhookSigns(settings, event) ==
    /\ ~Blank(Setting(WebhookSettings(settings), "webhook_url"))
    /\ event \in EnabledEvents(EventsSetting(WebhookSettings(settings)))
    /\ ~Blank(Setting(WebhookSettings(settings), "webhook_secret"))

\* sendWebhook: the deliveries it makes (the calls of fetch)
sendWebhook(settings, event) ==
    IF Blank(Setting(WebhookSettings(settings), "webhook_url")) THEN <<>>
    ELSE IF event \notin EnabledEvents(EventsSetting(WebhookSettings(settings))) THEN <<>>
    ELSE IF WebhookSigns(settings, event) /\ network = "sign-error" THEN <<>>
    ELSE <<event>>

\* the statement of sendWebhook that throws, if any
ThrowSite(settings, event) ==
    IF WebhookSigns(settings, event) /\ network = "sign-error" THEN "sign"
    ELSE IF sendWebhook(settings, event) # <<>> /\ network = "network-error" THEN "fetch"
    ELSE "none"

\* the statements inside a try block of sendWebhook
GuardedSites == {"sign", "fetch"}

\* Faulty variant: sendWebhook without its try blocks
sendWebhookRethrows(settings, event) ==
    IF ThrowSite(settings, event) = "none" THEN "resolved" ELSE "rejected"

\* sendWebhook: how the promise the handler awaits settles
sendWebhookSettles(settings, event) ==
    IF ThrowSite(settings, event) \in {"none"} \cup GuardedSites THEN "resolved" ELSE "rejected"

\* await sendWebhook(...); return response -- inside the handler's try block,
\* whose catch answers with `failure`
AfterWebhook(settings, event, failure, response) ==
    IF sendWebhookSettles(settings, event) = "rejected" THEN failure ELSE response

(***************************************************************************)
(* utils.ts: post and comment formatters                                   *)
(***************************************************************************)
\* formatPostResponse
formatPostResponse(id, post, categories, tags) ==
    [id |-> id, slug |-> post.slug, status |-> post.status, type |-> post.post_type,
     title |-> post.title, content |-> post.content, excerpt |-> post.excerpt,
     author |-> post.author_id,
     date |-> IF post.published_at # 0 THEN post.published_at ELSE post.created_at,
     categories |-> categories, tags |-> tags,
     comment_count |-> post.comment_count, view_count |-> post.view_count]

\* formatCommentResponse
formatCommentResponse(id, comment, isAdmin) ==
    LET response == [id |-> id, post |-> comment.post_id, parent |-> comment.parent_id,
                     author |-> comment.user_id, author_name |-> comment.author_name,
                     content |-> comment.content, status |-> comment.status,
                     avatar |-> md5(comment.author_email)]
    IN  IF isAdmin
        THEN [id |-> response.id, post |-> response.post, parent |-> response.parent,
              author |-> response.author, author_name |-> response.author_name,
              content |-> response.content, status |-> response.status,
              avatar |-> response.avatar,
              author_email |-> comment.author_email, author_ip |-> comment.author_ip]
        ELSE response

(***************************************************************************)
(* Request bookkeeping.                                                    *)
(***************************************************************************)
Handled(request, response) ==
    /\ req' = request
    /\ resp' = response

Passed(response) == response.code = "next"

\* rows of a table kept / changed
Without(table, ids) == [i \in DOMAIN table \ ids |-> table[i]]
With(table, id, row) == [i \in DOMAIN table \cup {id} |-> IF i = id THEN row ELSE table[i]]

(***************************************************************************)
(* routes/users.ts                                                         *)
(***************************************************************************)
Usernames == {"ann", "bob", "cy"}
Emails    == {"ann@x.io", " Bob@X.io ", "cy@x.io"}

UsernameTaken(username) == \E i \in DOMAIN users : users[i].username = username
EmailTaken(email) == \E i \in DOMAIN users : users[i].email = email

\* Faulty variant: the first registrant is recognised by the id sequence, not the row count
RegisterRoleBySequence == IF nextUserId = 1 THEN "administrator" ELSE "subscriber"

\* role of the row users.post('/register') inserts
RegisterRole == IF Cardinality(DOMAIN users) = 0 THEN "administrator" ELSE "subscriber"

\* users.post('/register'); body = [username, email, password, role]
UsersRegister(body) ==
    LET request == [op |-> "users.register", token |-> NoToken, body |-> body]
        row == [username |-> body.username, email |-> body.email,
                role |-> RegisterRole, status |-> "active"]
        id == nextUserId
        token == generateToken(id, row)
    IN  /\ UNCHANGED <<dbLinks, dbMedia, inflight, network>>
        /\ GetSiteSettingsEffect
        /\ sent' = <<>>
        /\ UNCHANGED <<siteSettings, now, dbPosts, dbComments>>
        /\ IF body.username = Undefined \/ body.email = Undefined \/ body.password = Undefined
           THEN /\ Handled(request, createWPError("rest_invalid_param", 400))
                /\ UNCHANGED <<users, nextUserId, tokens>>
           ELSE IF UsernameTaken(body.username) \/ EmailTaken(body.email)
           THEN /\ Handled(request, createWPError("existing_user_login", 400))
                /\ UNCHANGED <<users, nextUserId, tokens>>
           ELSE /\ nextUserId <= MaxUsers
                /\ Cardinality(tokens \cup {token}) <= MaxTokens
                /\ users' = With(users, id, row)
                /\ nextUserId' = nextUserId + 1
                /\ tokens' = tokens \cup {token}
                /\ Handled(request,
                       Response(201, "ok", [token |-> token,
                                            user |-> formatUserResponse(id, row, TRUE)]))

\* users.post('/login'); login is the body's username (a username or an e-mail),
\* passwordOk the outcome of comparePassword
UsersLogin(login, passwordOk) ==
    LET request == [op |-> "users.login", token |-> NoToken, login |-> login]
        found == {i \in DOMAIN users :
                    /\ (users[i].username = login \/ users[i].email = login)
                    /\ users[i].status = "active"}
    IN  /\ UNCHANGED <<dbLinks, dbMedia, inflight, network>>
        /\ GetSiteSettingsEffect
        /\ sent' = <<>>
        /\ UNCHANGED <<dbUsers, siteSettings, now, dbPosts, dbComments>>
        /\ IF login = Undefined
           THEN /\ Handled(request, createWPError("rest_invalid_param", 400))
                /\ UNCHANGED tokens
           ELSE IF found = {}
           THEN /\ Handled(request, createWPError("invalid_username", 401))
                /\ UNCHANGED tokens
           ELSE IF ~passwordOk
           THEN /\ Handled(request, createWPError("invalid_password", 401))
                /\ UNCHANGED tokens
           ELSE LET id == CHOOSE i \in found : TRUE
                    token == generateToken(id, users[id])
                IN  /\ Cardinality(tokens \cup {token}) <= MaxTokens
                    /\ tokens' = tokens \cup {token}
                    /\ Handled(request,
                           Response(200, "ok", [token |-> token,
                                                user |-> formatUserResponse(id, users[id], TRUE)]))

\* the user a users.get handler finds in the context: these two routes are
\* registered without authMiddleware or optionalAuthMiddleware, so nothing
\* verifies the bearer token and c.get('user') is undefined
UsersGetContextUser(token) == NoUser

\* users.get('/'); roleFilter is the role query parameter
UsersList(token, roleFilter) ==
    LET request == [op |-> "users.list", token |-> token, role |-> roleFilter]
        user == UsersGetContextUser(token)
        isAdmin == user # NoUser /\ user.role \in {"administrator", "editor"}
        rows == {i \in DOMAIN users :
                    /\ users[i].status = "active"
                    /\ (roleFilter # Undefined => users[i].role = roleFilter)}
    IN  /\ UNCHANGED <<dbLinks, dbMedia, inflight, network>>
        /\ GetSiteSettingsEffect
        /\ sent' = <<>>
        /\ UNCHANGED <<dbUsers, tokens, siteSettings, now, dbPosts, dbComments>>
        /\ Handled(request,
               Response(200, "ok", {formatUserResponse(i, users[i], isAdmin) : i \in rows}))

\* users.get('/:id')
UsersGet(token, id) ==
    LET request == [op |-> "users.get", token |-> token, id |-> id]
        currentUser == UsersGetContextUser(token)
        isAdmin == \/ (currentUser # NoUser /\ currentUser.role \in {"administrator", "editor"})
                   \/ (currentUser # NoUser /\ currentUser.userId = id)
    IN  /\ UNCHANGED <<dbLinks, dbMedia, inflight, network>>
        /\ GetSiteSettingsEffect
        /\ sent' = <<>>
        /\ UNCHANGED <<dbUsers, tokens, siteSettings, now, dbPosts, dbComments>>
        /\ IF id \notin DOMAIN users \/ users[id].status # "active"
           THEN Handled(request, createWPError("rest_user_invalid_id", 404))
           ELSE Handled(request, Response(200, "ok", formatUserResponse(id, users[id], isAdmin)))

\* users.post('/'); body = [username, email, password, role]
UsersCreate(token, body) ==
    LET request == [op |-> "users.create", token |-> token, body |-> body]
        auth == authMiddleware(token)
        guard == requireRole(contextUser(token), {"administrator"})
        row == [username |-> body.username, email |-> body.email,
                role |-> IF body.role = Undefined THEN "subscriber" ELSE body.role,
                status |-> "active"]
        id == nextUserId
    IN  /\ UNCHANGED <<dbLinks, dbMedia, inflight, network>>
        /\ sent' = <<>>
        /\ UNCHANGED <<tokens, siteSettings, now, dbPosts, dbComments>>
        /\ IF ~Passed(auth)
           THEN /\ Handled(request, auth)
                /\ UNCHANGED <<dbUsers, settingsCache, cacheTimestamp>>
           ELSE IF ~Passed(guard)
           THEN /\ Handled(request, guard)
                /\ UNCHANGED <<dbUsers, settingsCache, cacheTimestamp>>
           ELSE /\ GetSiteSettingsEffect
                /\ IF body.username = Undefined \/ body.email = Undefined
                      \/ body.password = Undefined
                   THEN /\ Handled(request, createWPError("rest_invalid_param", 400))
                        /\ UNCHANGED dbUsers
                   ELSE IF UsernameTaken(body.username) \/ EmailTaken(body.email)
                   THEN /\ Handled(request, createWPError("existing_user_login", 400))
                        /\ UNCHANGED dbUsers
                   ELSE IF row.role \notin Roles
                   THEN \* CHECK(role IN (...)) fails the INSERT
                        /\ Handled(request, createWPError("server_error", 500))
                        /\ UNCHANGED dbUsers
                   ELSE /\ users' = With(users, id, row)
                        /\ nextUserId' = nextUserId + 1
                        /\ Handled(request,
                               Response(201, "ok", formatUserResponse(id, row, TRUE)))

\* users.put('/:id'); body = [email, role]
UsersUpdate(token, id, body) ==
    LET request == [op |-> "users.update", token |-> token, id |-> id, body |-> body]
        auth == authMiddleware(token)
        currentUser == contextUser(token)
        setEmail == body.email # Undefined
        setRole == body.role # Undefined /\ currentUser.role = "administrator"
        row == [users[id] EXCEPT
                  !.email = IF setEmail THEN body.email ELSE @,
                  !.role = IF setRole THEN body.role ELSE @]
    IN  /\ UNCHANGED <<dbLinks, dbMedia, inflight, network>>
        /\ sent' = <<>>
        /\ UNCHANGED <<nextUserId, tokens, siteSettings, now, dbPosts, dbComments>>
        /\ IF ~Passed(auth)
           THEN /\ Handled(request, auth)
                /\ UNCHANGED <<users, settingsCache, cacheTimestamp>>
           ELSE /\ GetSiteSettingsEffect
                /\ IF currentUser.userId # id /\ currentUser.role # "administrator"
                   THEN /\ Handled(request, createWPError("rest_cannot_edit", 403))
                        /\ UNCHANGED users
                   ELSE IF id \notin DOMAIN users
                   THEN /\ Handled(request, createWPError("rest_user_invalid_id", 404))
                        /\ UNCHANGED users
                   ELSE IF body.role # Undefined /\ currentUser.role # "administrator"
                   THEN /\ Handled(request, createWPError("rest_cannot_edit_roles", 403))
                        /\ UNCHANGED users
                   ELSE IF ~setEmail /\ ~setRole
                   THEN /\ Handled(request,
                               Response(200, "ok", formatUserResponse(id, users[id], TRUE)))
                        /\ UNCHANGED users
                   ELSE IF \/ (setRole /\ body.role \notin Roles)
                           \/ (setEmail /\ \E j \in DOMAIN users \ {id} :
                                               users[j].email = body.email)
                   THEN \* CHECK(role IN (...)) or UNIQUE(email) fails the UPDATE
                        /\ Handled(request, createWPError("server_error", 500))
                        /\ UNCHANGED users
                   ELSE /\ users' = With(users, id, row)
                        /\ Handled(request,
                               Response(200, "ok", formatUserResponse(id, row, TRUE)))

\* posts rows after DELETE FROM posts WHERE id IN gone, with the ON DELETE CASCADE
\* of post_categories, post_tags and comments
CascadePosts(table, gone) ==
    /\ posts' = Without(table, gone)
    /\ postCategories' = {l \in postCategories : l[1] \notin gone}
    /\ postTags' = {l \in postTags : l[1] \notin gone}

\* users.delete('/:id'); reassign = 0 when the query parameter is absent
UsersDelete(token, id, force, reassign) ==
    LET request == [op |-> "users.delete", token |-> token, id |-> id,
                    force |-> force, reassign |-> reassign]
        auth == authMiddleware(token)
        guard == requireRole(contextUser(token), {"administrator"})
        currentUser == contextUser(token)
        owned == {p \in DOMAIN posts : posts[p].author_id = id}
        \* UPDATE posts SET author_id = reassign WHERE author_id = id
        reassigned == [p \in DOMAIN posts |->
                         IF p \in owned THEN [posts[p] EXCEPT !.author_id = reassign]
                         ELSE posts[p]]
        afterPosts == IF reassign # 0 THEN reassigned ELSE posts
        \* rows DELETE FROM posts / the cascade of DELETE FROM users removes
        gone == {p \in DOMAIN afterPosts : afterPosts[p].author_id = id}
        keptComments == {k \in DOMAIN comments : comments[k].post_id \notin gone}
    IN  /\ UNCHANGED <<dbLinks, nextMomentId, nextMediaId, bucket, inflight, network>>
        /\ sent' = <<>>
        /\ UNCHANGED <<nextUserId, tokens, siteSettings, now, nextPostId, catCount,
                       tagCount, nextCommentId>>
        /\ IF ~Passed(auth)
           THEN /\ Handled(request, auth)
                /\ UNCHANGED <<users, posts, postCategories, postTags, comments,
                               settingsCache, cacheTimestamp>>
           ELSE IF ~Passed(guard)
           THEN /\ Handled(request, guard)
                /\ UNCHANGED <<users, posts, postCategories, postTags, comments,
                               settingsCache, cacheTimestamp>>
           ELSE /\ GetSiteSettingsEffect
                /\ IF id \notin DOMAIN users
                   THEN /\ Handled(request, createWPError("rest_user_invalid_id", 404))
                        /\ UNCHANGED <<users, posts, postCategories, postTags, comments>>
                   ELSE IF currentUser.userId = id
                   THEN /\ Handled(request, createWPError("rest_cannot_delete", 403))
                        /\ UNCHANGED <<users, posts, postCategories, postTags, comments>>
                   ELSE IF ~force
                   THEN /\ users' = With(users, id, [users[id] EXCEPT !.status = "inactive"])
                        /\ Handled(request,
                               Response(200, "ok",
                                   formatUserResponse(id, [users[id] EXCEPT !.status = "inactive"],
                                                      TRUE)))
                        /\ UNCHANGED <<posts, postCategories, postTags, comments>>
                   ELSE IF reassign # 0 /\ owned # {} /\ reassign \notin DOMAIN users
                   THEN \* FOREIGN KEY (author_id) REFERENCES users(id) fails the UPDATE
                        /\ Handled(request, createWPError("server_error", 500))
                        /\ UNCHANGED <<users, posts, postCategories, postTags, comments>>
                   ELSE /\ users' = Without(users, {id})
                        /\ CascadePosts(afterPosts, gone)
                        /\ comments' = [k \in keptComments |->
                                          IF comments[k].user_id = id
                                          THEN [comments[k] EXCEPT !.user_id = 0]
                                          ELSE comments[k]]
                        /\ Handled(request,
                               Response(200, "deleted", formatUserResponse(id, users[id], TRUE)))
        \* moments and media: FOREIGN KEY (author_id) REFERENCES users(id) ON DELETE CASCADE
        /\ IF resp'.code = "deleted"
           THEN /\ moments' = [m \in {k \in DOMAIN moments : moments[k].author_id # id}
                                 |-> moments[m]]
                /\ media' = [m \in {k \in DOMAIN media : media[k].author_id # id}
                               |-> media[m]]
           ELSE UNCHANGED <<moments, media>>

(***************************************************************************)
(* routes/settings.ts                                                      *)
(***************************************************************************)
SettingKeys == {"site_title", "webhook_url", "webhook_secret", "webhook_events"}
sensitiveFields == {"webhook_secret", "webhook_url"}

\* settings.get('/admin')
SettingsGetAdmin(token) ==
    LET request == [op |-> "settings.admin", token |-> token]
        auth == authMiddleware(token)
        guard == requireRole(contextUser(token), {"administrator"})
    IN  /\ UNCHANGED <<dbLinks, dbMedia, inflight, network>>
        /\ sent' = <<>>
        /\ UNCHANGED <<stored, tokens, settingsCache, cacheTimestamp, now>>
        /\ IF ~Passed(auth) THEN Handled(request, auth)
           ELSE IF ~Passed(guard) THEN Handled(request, guard)
           ELSE Handled(request, Response(200, "ok", siteSettings))

\* settings.get('/')
SettingsGet(token) ==
    LET request == [op |-> "settings.list", token |-> token]
        settingsObj == [k \in DOMAIN siteSettings \ sensitiveFields |-> siteSettings[k]]
    IN  /\ UNCHANGED <<dbLinks, dbMedia, inflight, network>>
        /\ sent' = <<>>
        /\ UNCHANGED <<stored, tokens, settingsCache, cacheTimestamp, now>>
        /\ Handled(request, Response(200, "ok", settingsObj))

\* settings.get('/:key'); '/admin' is registered first, so key is never "admin"
SettingsGetKey(token, key) ==
    LET request == [op |-> "settings.get", token |-> token, key |-> key]
    IN  /\ UNCHANGED <<dbLinks, dbMedia, inflight, network>>
        /\ sent' = <<>>
        /\ UNCHANGED <<stored, tokens, settingsCache, cacheTimestamp, now>>
        /\ IF key \notin DOMAIN siteSettings
           THEN Handled(request, Response(404, "Setting not found", <<>>))
           ELSE Handled(request, Response(200, "ok", [key |-> key, value |-> siteSettings[key]]))

\* the rows after INSERT ... ON CONFLICT(setting_key) DO UPDATE for every entry
Upsert(table, entries) ==
    [k \in DOMAIN table \cup DOMAIN entries |->
        IF k \in DOMAIN entries THEN entries[k] ELSE table[k]]

\* settings.put('/') with body = entries, and settings.put('/:key') with
\* entries = (key :> value)
SettingsPut(token, entries, single) ==
    LET request == [op |-> IF single THEN "settings.putKey" ELSE "settings.put",
                    token |-> token, body |-> entries]
        auth == authMiddleware(token)
        guard == requireRole(contextUser(token), {"administrator"})
    IN  /\ UNCHANGED <<dbLinks, dbMedia, inflight, network>>
        /\ sent' = <<>>
        /\ UNCHANGED <<dbUsers, tokens, now, dbPosts, dbComments>>
        /\ IF ~Passed(auth)
           THEN /\ Handled(request, auth)
                /\ UNCHANGED <<siteSettings, settingsCache, cacheTimestamp>>
           ELSE IF ~Passed(guard)
           THEN /\ Handled(request, guard)
                /\ UNCHANGED <<siteSettings, settingsCache, cacheTimestamp>>
           ELSE /\ siteSettings' = Upsert(siteSettings, entries)
                /\ clearSettingsCache
                /\ Handled(request, Response(200, "ok", entries))

(***************************************************************************)
(* routes/posts.ts                                                         *)
(***************************************************************************)
PostStatuses == {"publish", "draft", "pending", "private", "trash"}   \* CHECK(status IN ...)

Range(seq) == {seq[i] : i \in DOMAIN seq}
NoList == <<0>>   \* a body without the categories / tags array
BodyTerms(list) == IF list = NoList THEN <<>> ELSE list   \* categories || []

\* the AI binding asked for an excerpt: it fails, or answers with a summary
AiExcerpts == {"ai-failed", "A summary written by the model."}
\* generateExcerptWithAI, for plain content shorter than 200 characters
generateExcerptWithAI(aiExcerpt, content) ==
    IF aiExcerpt = "ai-failed" THEN content ELSE aiExcerpt

\* the loop INSERT OR IGNORE INTO link (post, id); UPDATE counter SET count = count + 1,
\* stopped by the first id that violates the foreign key
RECURSIVE AttachTerms(_, _, _, _)
AttachTerms(postId, ids, links, counts) ==
    IF ids = <<>> THEN [links |-> links, counts |-> counts, ok |-> TRUE]
    ELSE IF Head(ids) \notin DOMAIN counts
         THEN [links |-> links, counts |-> counts, ok |-> FALSE]
    ELSE AttachTerms(postId, Tail(ids), links \cup {<<postId, Head(ids)>>},
                     [counts EXCEPT ![Head(ids)] = @ + 1])

\* Faulty variant: the old links are deleted without touching the counters
DetachCountsSkipped(postId, links, counts) == counts

\* the loop UPDATE counter SET count = count - 1 over the links of a post
DetachCounts(postId, links, counts) ==
    [t \in DOMAIN counts |-> IF <<postId, t>> \in links THEN counts[t] - 1 ELSE counts[t]]

TermsOf(postId, links) == {l[2] : l \in {m \in links : m[1] = postId}}

CountsCapped(counts) == \A t \in DOMAIN counts : counts[t] <= MaxCount

\* the slug posts.post('/') and posts.put('/:id') take from the body
RequestedSlug(slug, title, ai, fallback) ==
    IF slug # UndefinedText /\ trim(slug) # <<>> THEN Join(trim(slug))
    ELSE IF title # UndefinedText /\ title # <<>> THEN generateSlugWithAI(ai, title)
    ELSE fallback

\* Faulty variant: a created post is always announced as post.created
CreatedEventAlways(postStatus) == "post.created"

\* the event posts.post('/') hands to sendWebhook
CreatedEvent(postStatus) ==
    IF postStatus = "publish" THEN "post.published" ELSE "post.created"

\* the event posts.put('/:id') hands to sendWebhook; status is the body's
UpdatedEvent(status, existingStatus) ==
    IF status = "publish" /\ existingStatus # "publish" THEN "post.published"
    ELSE "post.updated"

\* posts.get('/'); status is the status query parameter
PostsList(token, status) ==
    LET request == [op |-> "posts.list", token |-> token, status |-> status]
        wanted == IF status = Undefined THEN "publish" ELSE status
        rows == {p \in DOMAIN posts : posts[p].post_type = "post" /\ posts[p].status = wanted}
    IN  /\ UNCHANGED <<dbLinks, dbMedia, inflight, network>>
        /\ GetSiteSettingsEffect
        /\ sent' = <<>>
        /\ UNCHANGED <<stored, tokens, now>>
        /\ Handled(request,
               Response(200, "ok",
                   {formatPostResponse(p, posts[p], TermsOf(p, postCategories),
                                       TermsOf(p, postTags)) : p \in rows}))

\* posts.get('/:id')
PostsGet(token, id) ==
    LET request == [op |-> "posts.get", token |-> token, id |-> id]
    IN  /\ UNCHANGED <<dbLinks, dbMedia, inflight, network>>
        /\ GetSiteSettingsEffect
        /\ sent' = <<>>
        /\ UNCHANGED <<dbUsers, tokens, siteSettings, now, nextPostId, postCategories,
                       postTags, catCount, tagCount, dbComments>>
        /\ IF id \notin DOMAIN posts \/ posts[id].post_type # "post"
           THEN /\ Handled(request, createWPError("rest_post_invalid_id", 404))
                /\ UNCHANGED posts
           ELSE /\ posts[id].view_count < MaxViews
                /\ posts' = [posts EXCEPT ![id].view_count = @ + 1]
                /\ Handled(request,
                       Response(200, "ok",
                           formatPostResponse(id, posts[id], TermsOf(id, postCategories),
                                              TermsOf(id, postTags))))

\* posts.post('/'); body = [title, content, slug, status, categories, tags],
\* ai = the answer of the AI binding to the slug prompt, aiExcerpt to the excerpt prompt
PostsCreate(token, body, ai, aiExcerpt) ==
    LET request == [op |-> "posts.create", token |-> token, body |-> body, ai |-> ai]
        auth == authMiddleware(token)
        user == contextUser(token)
        postStatus == IF body.status = Undefined THEN "draft" ELSE body.status
        event == CreatedEvent(postStatus)
        unique == EnsureUniqueSlug(RequestedSlug(body.slug, body.title, ai, ""))
        postId == nextPostId
        row == [title |-> Join(body.title),
                content |-> IF body.content = Undefined THEN "" ELSE body.content,
                excerpt |-> IF body.content = Undefined THEN ""
                            ELSE generateExcerptWithAI(aiExcerpt, body.content),
                slug |-> unique.slug, status |-> postStatus, post_type |-> "post",
                author_id |-> user.userId,
                published_at |-> IF postStatus = "publish" THEN now ELSE 0,
                created_at |-> now, comment_count |-> 0, view_count |-> 0]
        inserted == With(posts, postId, row)
        cats == AttachTerms(postId, BodyTerms(body.categories), postCategories, catCount)
        tags == AttachTerms(postId, BodyTerms(body.tags), postTags, tagCount)
    IN  /\ UNCHANGED <<dbLinks, dbMedia, inflight, network>>
        /\ UNCHANGED <<dbUsers, tokens, siteSettings, now, dbComments>>
        /\ IF ~Passed(auth)
           THEN /\ Handled(request, auth)
                /\ sent' = <<>>
                /\ UNCHANGED <<dbPosts, settingsCache, cacheTimestamp>>
           ELSE /\ GetSiteSettingsEffect
                /\ IF body.title = UndefinedText \/ body.title = <<>>
                   THEN /\ Handled(request, createWPError("rest_invalid_param", 400))
                        /\ sent' = <<>>
                        /\ UNCHANGED dbPosts
                   ELSE IF postStatus = "publish" /\ ~canPublishPost(user)
                   THEN /\ Handled(request, createWPError("rest_cannot_publish", 403))
                        /\ sent' = <<>>
                        /\ UNCHANGED dbPosts
                   ELSE IF postStatus \notin PostStatuses \/ user.userId \notin DOMAIN users
                   THEN \* CHECK(status IN ...) or FOREIGN KEY (author_id) fails the INSERT
                        /\ Handled(request, createWPError("server_error", 500))
                        /\ sent' = <<>>
                        /\ UNCHANGED dbPosts
                   ELSE /\ nextPostId <= MaxPosts
                        /\ posts' = inserted
                        /\ nextPostId' = nextPostId + 1
                        /\ postCategories' = cats.links
                        /\ catCount' = cats.counts
                        /\ CountsCapped(cats.counts)
                        /\ IF ~cats.ok
                           THEN \* the handler dies in the categories loop
                                /\ Handled(request, createWPError("server_error", 500))
                                /\ sent' = <<>>
                                /\ UNCHANGED <<postTags, tagCount>>
                           ELSE /\ postTags' = tags.links
                                /\ tagCount' = tags.counts
                                /\ CountsCapped(tags.counts)
                                /\ IF ~tags.ok
                                   THEN /\ Handled(request, createWPError("server_error", 500))
                                        /\ sent' = <<>>
                                   ELSE /\ sent' = sendWebhook(getSiteSettings, event)
                                        /\ Handled(request,
                                               AfterWebhook(getSiteSettings, event,
                                                   createWPError("server_error", 500),
                                                   Response(201, "ok",
                                                   formatPostResponse(postId, row,
                                                       Range(BodyTerms(body.categories)),
                                                       Range(BodyTerms(body.tags))))))

\* a body that also carries the excerpt field
WithExcerpt(body, excerpt) == [f \in DOMAIN body \cup {"excerpt"} |->
                                 IF f = "excerpt" THEN excerpt ELSE body[f]]
HasExcerpt(body) == "excerpt" \in DOMAIN body

\* Faulty variant: the excerpt is left alone unless the body carries one
NewExcerptOnlySupplied(body, aiExcerpt, existing) ==
    IF HasExcerpt(body) THEN body.excerpt ELSE existing

\* posts.put: the excerpt of the body, or one generated from the content of the body
NewExcerpt(body, aiExcerpt, existing) ==
    IF HasExcerpt(body) THEN body.excerpt
    ELSE IF body.content # Undefined THEN generateExcerptWithAI(aiExcerpt, body.content)
    ELSE existing

\* posts.put('/:id'); body = [title, content, slug, status, categories, tags] and,
\* when supplied, excerpt
PostsUpdate(token, id, body, ai, aiExcerpt) ==
    LET request == [op |-> "posts.update", token |-> token, id |-> id, body |-> body]
        auth == authMiddleware(token)
        user == contextUser(token)
        existingPost == posts[id]
        event == UpdatedEvent(body.status, existingPost.status)
        publishedAt == IF body.status = "publish" /\ existingPost.published_at = 0
                       THEN now ELSE existingPost.published_at
        newSlug == RequestedSlug(body.slug, body.title, ai, existingPost.slug)
        row == [existingPost EXCEPT
                  !.title = IF body.title # UndefinedText THEN Join(body.title) ELSE @,
                  !.content = IF body.content # Undefined THEN body.content ELSE @,
                  !.excerpt = NewExcerpt(body, aiExcerpt, @),
                  !.slug = IF body.slug # UndefinedText THEN newSlug ELSE @,
                  !.status = IF body.status # Undefined THEN body.status ELSE @,
                  !.published_at = IF body.status # Undefined THEN publishedAt ELSE @]
        updated == With(posts, id, row)
        detachedCats == DetachCounts(id, postCategories, catCount)
        cats == IF body.categories = NoList
                THEN [links |-> postCategories, counts |-> catCount, ok |-> TRUE]
                ELSE AttachTerms(id, body.categories,
                                 {l \in postCategories : l[1] # id}, detachedCats)
        detachedTags == DetachCounts(id, postTags, tagCount)
        tags == IF body.tags = NoList
                THEN [links |-> postTags, counts |-> tagCount, ok |-> TRUE]
                ELSE AttachTerms(id, body.tags, {l \in postTags : l[1] # id}, detachedTags)
    IN  /\ UNCHANGED <<dbLinks, dbMedia, inflight, network>>
        /\ UNCHANGED <<dbUsers, tokens, siteSettings, now, nextPostId, dbComments>>
        /\ IF ~Passed(auth)
           THEN /\ Handled(request, auth)
                /\ sent' = <<>>
                /\ UNCHANGED <<posts, postCategories, postTags, catCount, tagCount,
                               settingsCache, cacheTimestamp>>
           ELSE /\ GetSiteSettingsEffect
                /\ IF id \notin DOMAIN posts \/ posts[id].post_type # "post"
                   THEN /\ Handled(request, createWPError("rest_post_invalid_id", 404))
                        /\ sent' = <<>>
                        /\ UNCHANGED <<posts, postCategories, postTags, catCount, tagCount>>
                   ELSE IF ~canEditPost(user, id)
                   THEN /\ Handled(request, createWPError("rest_cannot_edit", 403))
                        /\ sent' = <<>>
                        /\ UNCHANGED <<posts, postCategories, postTags, catCount, tagCount>>
                   ELSE IF body.status = "publish" /\ existingPost.status # "publish"
                           /\ ~canPublishPost(user)
                   THEN /\ Handled(request, createWPError("rest_cannot_publish", 403))
                        /\ sent' = <<>>
                        /\ UNCHANGED <<posts, postCategories, postTags, catCount, tagCount>>
                   ELSE IF \/ row.status \notin PostStatuses
                           \/ \E p \in DOMAIN posts \ {id} : posts[p].slug = row.slug
                   THEN \* CHECK(status IN ...) or UNIQUE(slug) fails the UPDATE
                        /\ Handled(request, createWPError("server_error", 500))
                        /\ sent' = <<>>
                        /\ UNCHANGED <<posts, postCategories, postTags, catCount, tagCount>>
                   ELSE /\ posts' = updated
                        /\ postCategories' = cats.links
                        /\ catCount' = cats.counts
                        /\ CountsCapped(cats.counts)
                        /\ IF ~cats.ok
                           THEN /\ Handled(request, createWPError("server_error", 500))
                                /\ sent' = <<>>
                                /\ UNCHANGED <<postTags, tagCount>>
                           ELSE /\ postTags' = tags.links
                                /\ tagCount' = tags.counts
                                /\ CountsCapped(tags.counts)
                                /\ IF ~tags.ok
                                   THEN /\ Handled(request, createWPError("server_error", 500))
                                        /\ sent' = <<>>
                                   ELSE /\ sent' = sendWebhook(getSiteSettings, event)
                                        /\ Handled(request,
                                               AfterWebhook(getSiteSettings, event,
                                                   createWPError("server_error", 500),
                                                   Response(200, "ok",
                                                   formatPostResponse(id, row,
                                                       TermsOf(id, cats.links),
                                                       TermsOf(id, tags.links)))))

\* posts.delete('/:id'); force is the force query parameter
PostsDelete(token, id, force) ==
    LET request == [op |-> "posts.delete", token |-> token, id |-> id, force |-> force]
        auth == authMiddleware(token)
        user == contextUser(token)
        trashed == [posts[id] EXCEPT !.status = "trash"]
    IN  /\ UNCHANGED <<dbLinks, dbMedia, inflight, network>>
        /\ UNCHANGED <<dbUsers, tokens, siteSettings, now, nextPostId, catCount, tagCount,
                       nextCommentId>>
        /\ IF ~Passed(auth)
           THEN /\ Handled(request, auth)
                /\ sent' = <<>>
                /\ UNCHANGED <<posts, postCategories, postTags, comments,
                               settingsCache, cacheTimestamp>>
           ELSE /\ GetSiteSettingsEffect
                /\ IF id \notin DOMAIN posts \/ posts[id].post_type # "post"
                   THEN /\ Handled(request, createWPError("rest_post_invalid_id", 404))
                        /\ sent' = <<>>
                        /\ UNCHANGED <<posts, postCategories, postTags, comments>>
                   ELSE IF ~canDeletePost(user, id)
                   THEN /\ Handled(request, createWPError("rest_cannot_delete", 403))
                        /\ sent' = <<>>
                        /\ UNCHANGED <<posts, postCategories, postTags, comments>>
                   ELSE IF force
                   THEN /\ CascadePosts(posts, {id})
                        /\ comments' = [k \in {j \in DOMAIN comments : comments[j].post_id # id}
                                          |-> comments[k]]
                        /\ sent' = sendWebhook(getSiteSettings, "post.deleted")
                        /\ Handled(request,
                               AfterWebhook(getSiteSettings, "post.deleted",
                                   createWPError("server_error", 500),
                                   Response(200, "deleted",
                                   formatPostResponse(id, posts[id], {}, {}))))
                   ELSE /\ posts' = With(posts, id, trashed)
                        /\ sent' = sendWebhook(getSiteSettings, "post.updated")
                        /\ Handled(request,
                               AfterWebhook(getSiteSettings, "post.updated",
                                   createWPError("server_error", 500),
                                   Response(200, "ok", formatPostResponse(id, trashed, {}, {}))))
                        /\ UNCHANGED <<postCategories, postTags, comments>>

(***************************************************************************)
(* routes/pages.ts                                                         *)
(***************************************************************************)
\* the id and status of a page, as pages.delete answers them
PageSummary(id, row) == [id |-> id, status |-> row.status]

\* pages.post('/'); body = [title, slug, status]
PagesCreate(token, body) ==
    LET request == [op |-> "pages.create", token |-> token, body |-> body]
        auth == authMiddleware(token)
        user == contextUser(token)
        pageSlug == IF body.slug # UndefinedText /\ trim(body.slug) # <<>>
                    THEN Join(trim(body.slug)) ELSE generateSlug(body.title)
        pageStatus == IF body.status = Undefined THEN "draft" ELSE body.status
        pageId == nextPostId
        row == [title |-> Join(body.title), content |-> "", excerpt |-> "",
                slug |-> pageSlug, status |-> pageStatus, post_type |-> "page",
                author_id |-> user.userId,
                published_at |-> IF pageStatus = "publish" THEN now ELSE 0,
                created_at |-> now, comment_count |-> 0, view_count |-> 0]
    IN  /\ UNCHANGED <<dbLinks, dbMedia, inflight, network>>
        /\ sent' = <<>>
        /\ UNCHANGED <<dbUsers, tokens, siteSettings, now, postCategories, postTags,
                       catCount, tagCount, dbComments>>
        /\ IF ~Passed(auth)
           THEN /\ Handled(request, auth)
                /\ UNCHANGED <<posts, nextPostId, settingsCache, cacheTimestamp>>
           ELSE /\ GetSiteSettingsEffect
                /\ IF body.title = UndefinedText \/ body.title = <<>>
                   THEN /\ Handled(request, createWPError("rest_missing_callback_param", 400))
                        /\ UNCHANGED <<posts, nextPostId>>
                   ELSE IF \E p \in DOMAIN posts :
                              posts[p].slug = pageSlug /\ posts[p].post_type = "page"
                   THEN /\ Handled(request, createWPError("rest_slug_exists", 400))
                        /\ UNCHANGED <<posts, nextPostId>>
                   ELSE IF \/ SlugExists(pageSlug)
                           \/ pageStatus \notin PostStatuses
                           \/ user.userId \notin DOMAIN users
                   THEN \* UNIQUE(slug), CHECK(status IN ...) or FOREIGN KEY (author_id)
                        \* fails the INSERT
                        /\ Handled(request, createWPError("rest_internal_error", 500))
                        /\ UNCHANGED <<posts, nextPostId>>
                   ELSE /\ nextPostId <= MaxPosts
                        /\ posts' = With(posts, pageId, row)
                        /\ nextPostId' = nextPostId + 1
                        /\ Handled(request,
                               Response(201, "ok",
                                   [id |-> pageId, slug |-> row.slug, status |-> row.status,
                                    type |-> "page", title |-> row.title,
                                    author |-> row.author_id]))

\* pages.delete('/:id')
PagesDelete(token, id, force) ==
    LET request == [op |-> "pages.delete", token |-> token, id |-> id, force |-> force]
        auth == authMiddleware(token)
        trashedPage == [posts[id] EXCEPT !.status = "trash"]
    IN  /\ UNCHANGED <<dbLinks, dbMedia, inflight, network>>
        /\ sent' = <<>>
        /\ UNCHANGED <<dbUsers, tokens, siteSettings, now, nextPostId, catCount, tagCount,
                       nextCommentId>>
        /\ IF ~Passed(auth)
           THEN /\ Handled(request, auth)
                /\ UNCHANGED <<posts, postCategories, postTags, comments,
                               settingsCache, cacheTimestamp>>
           ELSE /\ GetSiteSettingsEffect
                /\ IF id \notin DOMAIN posts \/ posts[id].post_type # "page"
                   THEN /\ Handled(request, createWPError("rest_page_invalid", 404))
                        /\ UNCHANGED <<posts, postCategories, postTags, comments>>
                   ELSE IF force
                   THEN /\ CascadePosts(posts, {id})
                        /\ comments' = [k \in {j \in DOMAIN comments : comments[j].post_id # id}
                                          |-> comments[k]]
                        /\ Handled(request, Response(200, "deleted", PageSummary(id, posts[id])))
                   ELSE /\ posts' = With(posts, id, trashedPage)
                        /\ Handled(request, Response(200, "ok", PageSummary(id, trashedPage)))
                        /\ UNCHANGED <<postCategories, postTags, comments>>

(***************************************************************************)
(* utils.ts: buildPaginationHeaders, and routes/tags.ts                    *)
(***************************************************************************)
\* X-WP-Total, X-WP-TotalPages and the rel entries of the Link header
buildPaginationHeaders(page, perPage, totalItems) ==
    LET totalPages == (totalItems + perPage - 1) \div perPage   \* Math.ceil
    IN  [total |-> totalItems, totalPages |-> totalPages,
         prev |-> page > 1, next |-> page < totalPages]

\* the name column of the tags rows
TagNames == <<<<"n", "e", "w", "s">>, <<"n", "e", "t">>, <<"g", "o">>>>

\* name LIKE '%search%'
Like(name, search) ==
    \E i \in 0..(Len(name) - Len(search)) : SubSeq(name, i + 1, i + Len(search)) = search

\* ORDER BY id ASC
RECURSIVE OrderById(_)
OrderById(ids) ==
    IF ids = {} THEN <<>>
    ELSE LET first == CHOOSE i \in ids : \A j \in ids : i <= j
         IN  <<first>> \o OrderById(ids \ {first})

\* LIMIT perPage OFFSET offset
LimitOffset(rows, perPage, offset) ==
    SubSeq(rows, offset + 1, IF offset + perPage < Len(rows) THEN offset + perPage ELSE Len(rows))

\* tags.get('/') with orderby=id; search = UndefinedText and post = 0 when the query
\* parameter is absent
TagsList(search, post, page, perPage) ==
    LET request == [op |-> "tags.list", token |-> NoToken, search |-> search, post |-> post,
                    page |-> page, per_page |-> perPage]
        hasSearch == search # UndefinedText /\ search # <<>>
        hasPost == post # 0
        offset == (page - 1) * perPage
        \* the post filter replaces the query built so far
        selected == IF hasPost THEN {t \in DOMAIN tagCount : <<post, t>> \in postTags}
                    ELSE IF hasSearch
                    THEN {t \in DOMAIN tagCount : Like(TagNames[t], search)}
                    ELSE DOMAIN tagCount
        \* the count query knows the search filter only
        counted == IF hasSearch THEN {t \in DOMAIN tagCount : Like(TagNames[t], search)}
                   ELSE DOMAIN tagCount
        totalItems == Cardinality(counted)
        formattedTags == LimitOffset(OrderById(selected), perPage, offset)
    IN  /\ UNCHANGED <<dbLinks, dbMedia, inflight, network>>
        /\ sent' = <<>>
        /\ UNCHANGED <<stored, tokens, settingsCache, cacheTimestamp, now>>
        /\ IF hasSearch /\ hasPost
           THEN \* bind() is handed the search pattern too: four values for three
                \* placeholders, and the query throws
                Handled(request, createWPError("server_error", 500))
           ELSE Handled(request,
                    Response(200, "ok",
                        [items |-> formattedTags,
                         headers |-> buildPaginationHeaders(page, perPage, totalItems)]))

(***************************************************************************)
(* routes/categories.ts                                                    *)
(***************************************************************************)
\* Faulty variant: no id is protected
IsDefaultTermNever(id) == FALSE

\* id === 1: the default category / default link category
IsDefaultTerm(id) == id = 1

\* categories.delete('/:id')
CategoriesDelete(token, id, force) ==
    LET request == [op |-> "categories.delete", token |-> token, id |-> id, force |-> force]
        auth == authMiddleware(token)
        guard == requireRole(contextUser(token), {"administrator", "editor"})
        moved == {l \in postCategories : l[2] = id}
    IN  /\ UNCHANGED <<dbLinks, dbMedia, inflight, network>>
        /\ sent' = <<>>
        /\ UNCHANGED <<dbUsers, tokens, siteSettings, now, posts, nextPostId, postTags,
                       tagCount, dbComments>>
        /\ IF ~Passed(auth)
           THEN /\ Handled(request, auth)
                /\ UNCHANGED <<postCategories, catCount, settingsCache, cacheTimestamp>>
           ELSE IF ~Passed(guard)
           THEN /\ Handled(request, guard)
                /\ UNCHANGED <<postCategories, catCount, settingsCache, cacheTimestamp>>
           ELSE /\ GetSiteSettingsEffect
                /\ IF id \notin DOMAIN catCount
                   THEN /\ Handled(request, createWPError("rest_term_invalid", 404))
                        /\ UNCHANGED <<postCategories, catCount>>
                   ELSE IF IsDefaultTerm(id)
                   THEN /\ Handled(request, createWPError("rest_cannot_delete", 403))
                        /\ UNCHANGED <<postCategories, catCount>>
                   ELSE IF ~force
                   THEN /\ Handled(request, createWPError("rest_trash_not_supported", 501))
                        /\ UNCHANGED <<postCategories, catCount>>
                   ELSE IF \E l \in moved : <<l[1], 1>> \in postCategories
                   THEN \* PRIMARY KEY (post_id, category_id) fails the UPDATE
                        /\ Handled(request, createWPError("server_error", 500))
                        /\ UNCHANGED <<postCategories, catCount>>
                   ELSE /\ postCategories' = (postCategories \ moved)
                                             \cup {<<l[1], 1>> : l \in moved}
                        /\ catCount' = Without(catCount, {id})
                        /\ Handled(request, Response(200, "deleted", [id |-> id]))

(***************************************************************************)
(* routes/comments.ts                                                      *)
(***************************************************************************)
\* Faulty variant: every authenticated requester is treated as a moderator
CommentsIsAdminAnyUser(user) == user # NoUser

\* isAdmin of the comments handlers
CommentsIsAdmin(user) == user # NoUser /\ user.role \in {"administrator", "editor"}

\* /^[^\s@]+@[^\s@]+\.[^\s@]+$/ on the addresses the model uses
emailRegexTest(email) == email \in {"ann@x.io", "ed@x.io", "cy@x.io", "sue@x.io", "guest@x.io"}

\* comments.get('/'); status is the status query parameter
CommentsList(token, status) ==
    LET request == [op |-> "comments.list", token |-> token, status |-> status]
        isAdmin == CommentsIsAdmin(contextUser(token))
        wanted == IF status # Undefined THEN status
                  ELSE IF isAdmin THEN "all" ELSE "approved"
        rows == {k \in DOMAIN comments :
                    IF ~isAdmin THEN comments[k].status = "approved"
                    ELSE wanted # "all" => comments[k].status = wanted}
    IN  /\ UNCHANGED <<dbLinks, dbMedia, inflight, network>>
        /\ GetSiteSettingsEffect
        /\ sent' = <<>>
        /\ UNCHANGED <<stored, tokens, now>>
        /\ Handled(request,
               Response(200, "ok", {formatCommentResponse(k, comments[k], isAdmin) : k \in rows}))

\* comments.get('/:id')
CommentsGet(token, id) ==
    LET request == [op |-> "comments.get", token |-> token, id |-> id]
        isAdmin == CommentsIsAdmin(contextUser(token))
    IN  /\ UNCHANGED <<dbLinks, dbMedia, inflight, network>>
        /\ GetSiteSettingsEffect
        /\ sent' = <<>>
        /\ UNCHANGED <<stored, tokens, now>>
        /\ IF id \notin DOMAIN comments
           THEN Handled(request, createWPError("rest_comment_invalid_id", 404))
           ELSE IF ~isAdmin /\ comments[id].status # "approved"
           THEN Handled(request, createWPError("rest_comment_invalid_id", 404))
           ELSE Handled(request,
                    Response(200, "ok", formatCommentResponse(id, comments[id], isAdmin)))

\* comments.post('/'); body = [post, parent, author_name, author_email, content],
\* ip = the CF-Connecting-IP header ("" when absent)
CommentsCreate(token, body, ip) ==
    LET request == [op |-> "comments.create", token |-> token, body |-> body, ip |-> ip]
        user == contextUser(token)
        userId == user.userId
        known == user # NoUser /\ userId \in DOMAIN users
        commentAuthorName == IF known THEN users[userId].username ELSE body.author_name
        commentAuthorEmail == IF known THEN users[userId].email ELSE body.author_email
        id == nextCommentId
        row == [post_id |-> body.post, parent_id |-> body.parent,
                author_name |-> commentAuthorName, author_email |-> commentAuthorEmail,
                author_ip |-> ip, content |-> body.content, status |-> "approved",
                user_id |-> userId]
    IN  /\ UNCHANGED <<dbLinks, dbMedia, inflight, network>>
        /\ GetSiteSettingsEffect
        /\ UNCHANGED <<dbUsers, tokens, siteSettings, now, nextPostId, postCategories,
                       postTags, catCount, tagCount>>
        /\ IF body.post = 0 \/ body.content = Undefined
           THEN /\ Handled(request, createWPError("rest_missing_callback_param", 400))
                /\ sent' = <<>>
                /\ UNCHANGED <<posts, dbComments>>
           ELSE IF user = NoUser
                   /\ (body.author_name = Undefined \/ body.author_email = Undefined)
           THEN /\ Handled(request, createWPError("rest_missing_callback_param", 400))
                /\ sent' = <<>>
                /\ UNCHANGED <<posts, dbComments>>
           ELSE IF user = NoUser /\ ~emailRegexTest(body.author_email)
           THEN /\ Handled(request, createWPError("rest_invalid_param", 400))
                /\ sent' = <<>>
                /\ UNCHANGED <<posts, dbComments>>
           ELSE IF body.post \notin DOMAIN posts \/ posts[body.post].post_type # "post"
           THEN /\ Handled(request, createWPError("rest_comment_invalid_post_id", 404))
                /\ sent' = <<>>
                /\ UNCHANGED <<posts, dbComments>>
           ELSE IF body.parent # 0
                   /\ ~(body.parent \in DOMAIN comments
                        /\ comments[body.parent].post_id = body.post)
           THEN /\ Handled(request, createWPError("rest_comment_invalid_parent", 400))
                /\ sent' = <<>>
                /\ UNCHANGED <<posts, dbComments>>
           ELSE IF \/ commentAuthorName = Undefined \/ commentAuthorEmail = Undefined
                   \/ (user # NoUser /\ ~known)
           THEN \* NOT NULL or FOREIGN KEY (user_id) fails the INSERT
                /\ Handled(request, createWPError("rest_internal_error", 500))
                /\ sent' = <<>>
                /\ UNCHANGED <<posts, dbComments>>
           ELSE /\ nextCommentId <= MaxComments
                /\ posts[body.post].comment_count < MaxCount
                /\ comments' = With(comments, id, row)
                /\ nextCommentId' = nextCommentId + 1
                /\ posts' = [posts EXCEPT ![body.post].comment_count = @ + 1]
                /\ sent' = sendWebhook(getSiteSettings, "comment.created")
                /\ Handled(request,
                       AfterWebhook(getSiteSettings, "comment.created",
                           createWPError("rest_internal_error", 500),
                           Response(201, "ok", formatCommentResponse(id, row, FALSE))))

\* comments.delete('/:id')
CommentsDelete(token, id, force) ==
    LET request == [op |-> "comments.delete", token |-> token, id |-> id, force |-> force]
        auth == authMiddleware(token)
        isAdmin == contextUser(token).role \in {"administrator", "editor"}
        trashed == [comments[id] EXCEPT !.status = "trash"]
    IN  /\ UNCHANGED <<dbLinks, dbMedia, inflight, network>>
        /\ UNCHANGED <<dbUsers, tokens, siteSettings, now, nextPostId, postCategories,
                       postTags, catCount, tagCount, nextCommentId>>
        /\ IF ~Passed(auth)
           THEN /\ Handled(request, auth)
                /\ sent' = <<>>
                /\ UNCHANGED <<posts, comments, settingsCache, cacheTimestamp>>
           ELSE /\ GetSiteSettingsEffect
                /\ IF id \notin DOMAIN comments
                   THEN /\ Handled(request, createWPError("rest_comment_invalid_id", 404))
                        /\ sent' = <<>>
                        /\ UNCHANGED <<posts, comments>>
                   ELSE IF ~isAdmin
                   THEN /\ Handled(request, createWPError("rest_cannot_delete", 403))
                        /\ sent' = <<>>
                        /\ UNCHANGED <<posts, comments>>
                   ELSE IF force
                   THEN /\ comments' = Without(comments, {id})
                        /\ posts' = [p \in DOMAIN posts |->
                                       IF p = comments[id].post_id
                                       THEN [posts[p] EXCEPT !.comment_count = @ - 1]
                                       ELSE posts[p]]
                        /\ sent' = sendWebhook(getSiteSettings, "comment.deleted")
                        /\ Handled(request,
                               AfterWebhook(getSiteSettings, "comment.deleted",
                                   createWPError("rest_internal_error", 500),
                                   Response(200, "deleted",
                                   formatCommentResponse(id, comments[id], isAdmin))))
                   ELSE /\ comments' = With(comments, id, trashed)
                        /\ sent' = sendWebhook(getSiteSettings, "comment.updated")
                        /\ Handled(request,
                               AfterWebhook(getSiteSettings, "comment.updated",
                                   createWPError("rest_internal_error", 500),
                                   Response(200, "ok",
                                       formatCommentResponse(id, trashed, isAdmin))))
                        /\ UNCHANGED posts

(***************************************************************************)
(* routes/links.ts and routes/link-categories.ts                           *)
(***************************************************************************)
NoId == 0 - 1   \* a body without category_id

LinkCountsCapped(counts) == \A k \in DOMAIN counts : counts[k] \in (0 - MaxCount)..MaxCount

\* UPDATE link_categories SET count = count + delta WHERE id = ? (no row: no change)
BumpLinkCount(counts, id, delta) ==
    [k \in DOMAIN counts |-> IF k = id THEN counts[k] + delta ELSE counts[k]]

LinkResponse(id, row) ==
    [id |-> id, name |-> row.name, url |-> row.url, category |-> row.category_id]

\* links.post('/'); body = [name, url, category_id]
LinksCreate(token, body) ==
    LET request == [op |-> "links.create", token |-> token, body |-> body]
        auth == authMiddleware(token)
        given == body.category_id # NoId /\ body.category_id # 0
        row == [name |-> body.name, url |-> body.url,
                category_id |-> IF given THEN body.category_id ELSE 1]
    IN  /\ sent' = <<>>
        /\ UNCHANGED <<dbUsers, dbSettings, dbPosts, dbComments, dbMedia, tokens, now,
                       settingsCache, cacheTimestamp, inflight, network>>
        /\ IF ~Passed(auth)
           THEN /\ Handled(request, auth)
                /\ UNCHANGED dbLinks
           ELSE IF body.name = Undefined \/ body.url = Undefined
           THEN /\ Handled(request, createWPError("rest_missing_callback_param", 400))
                /\ UNCHANGED dbLinks
           ELSE IF row.category_id \notin DOMAIN linkCatCount
           THEN \* FOREIGN KEY (category_id) fails the INSERT
                /\ Handled(request, createWPError("rest_internal_error", 500))
                /\ UNCHANGED dbLinks
           ELSE /\ linkRows' = With(linkRows, nextLinkId, row)
                /\ nextLinkId' = nextLinkId + 1
                /\ linkCatCount' = IF given THEN BumpLinkCount(linkCatCount, body.category_id, 1)
                                   ELSE linkCatCount
                /\ LinkCountsCapped(linkCatCount')
                /\ Handled(request, Response(201, "ok", LinkResponse(nextLinkId, row)))

\* links.put('/:id'); body = [name, url, category_id]
LinksUpdate(token, id, body) ==
    LET request == [op |-> "links.update", token |-> token, id |-> id, body |-> body]
        auth == authMiddleware(token)
        existingLink == linkRows[id]
        moved == body.category_id # NoId /\ existingLink.category_id # body.category_id
        counted == IF moved
                   THEN BumpLinkCount(BumpLinkCount(linkCatCount, existingLink.category_id,
                                                    0 - 1),
                                      body.category_id, 1)
                   ELSE linkCatCount
        row == [name |-> IF body.name # Undefined THEN body.name ELSE existingLink.name,
                url |-> IF body.url # Undefined THEN body.url ELSE existingLink.url,
                category_id |-> IF body.category_id # NoId THEN body.category_id
                                ELSE existingLink.category_id]
    IN  /\ sent' = <<>>
        /\ UNCHANGED <<dbUsers, dbSettings, dbPosts, dbComments, dbMedia, tokens, now,
                       settingsCache, cacheTimestamp, inflight, network, nextLinkId>>
        /\ IF ~Passed(auth)
           THEN /\ Handled(request, auth)
                /\ UNCHANGED <<linkRows, linkCatCount>>
           ELSE IF id \notin DOMAIN linkRows
           THEN /\ Handled(request, createWPError("rest_link_invalid", 404))
                /\ UNCHANGED <<linkRows, linkCatCount>>
           ELSE /\ linkCatCount' = counted
                /\ LinkCountsCapped(counted)
                /\ IF row.category_id \notin DOMAIN linkCatCount
                   THEN \* FOREIGN KEY (category_id) fails the UPDATE, after the
                        \* counters were written
                        /\ Handled(request, createWPError("rest_internal_error", 500))
                        /\ UNCHANGED linkRows
                   ELSE /\ linkRows' = With(linkRows, id, row)
                        /\ Handled(request, Response(200, "ok", LinkResponse(id, row)))

\* links.delete('/:id')
LinksDelete(token, id) ==
    LET request == [op |-> "links.delete", token |-> token, id |-> id]
        auth == authMiddleware(token)
    IN  /\ sent' = <<>>
        /\ UNCHANGED <<dbUsers, dbSettings, dbPosts, dbComments, dbMedia, tokens, now,
                       settingsCache, cacheTimestamp, inflight, network, nextLinkId>>
        /\ IF ~Passed(auth)
           THEN /\ Handled(request, auth)
                /\ UNCHANGED <<linkRows, linkCatCount>>
           ELSE IF id \notin DOMAIN linkRows
           THEN /\ Handled(request, createWPError("rest_link_invalid", 404))
                /\ UNCHANGED <<linkRows, linkCatCount>>
           ELSE /\ linkCatCount' = BumpLinkCount(linkCatCount, linkRows[id].category_id, 0 - 1)
                /\ LinkCountsCapped(linkCatCount')
                /\ linkRows' = Without(linkRows, {id})
                /\ Handled(request, Response(200, "deleted", LinkResponse(id, linkRows[id])))

\* linkCategories.delete('/:id')
LinkCategoriesDelete(token, id) ==
    LET request == [op |-> "linkCategories.delete", token |-> token, id |-> id]
        auth == authMiddleware(token)
        user == contextUser(token)
    IN  /\ sent' = <<>>
        /\ UNCHANGED <<dbUsers, dbSettings, dbPosts, dbComments, dbMedia, tokens, now,
                       settingsCache, cacheTimestamp, inflight, network, nextLinkId>>
        /\ IF ~Passed(auth)
           THEN /\ Handled(request, auth)
                /\ UNCHANGED <<linkRows, linkCatCount>>
           ELSE IF user.role \notin {"administrator", "editor"}
           THEN /\ Handled(request, createWPError("rest_forbidden", 403))
                /\ UNCHANGED <<linkRows, linkCatCount>>
           ELSE IF IsDefaultTerm(id)
           THEN /\ Handled(request, createWPError("rest_cannot_delete", 403))
                /\ UNCHANGED <<linkRows, linkCatCount>>
           ELSE IF id \notin DOMAIN linkCatCount
           THEN /\ Handled(request, createWPError("rest_category_invalid", 404))
                /\ UNCHANGED <<linkRows, linkCatCount>>
           ELSE /\ linkRows' = [l \in DOMAIN linkRows |->
                                  IF linkRows[l].category_id = id
                                  THEN [linkRows[l] EXCEPT !.category_id = 1]
                                  ELSE linkRows[l]]
                /\ linkCatCount' = [k \in DOMAIN linkCatCount \ {id} |-> linkCatCount[k]]
                /\ Handled(request, Response(200, "deleted", [id |-> id]))

(***************************************************************************)
(* tags.delete, routes/moments.ts and routes/media.ts                      *)
(***************************************************************************)
\* tags.delete('/:id')
TagsDelete(token, id, force) ==
    LET request == [op |-> "tags.delete", token |-> token, id |-> id, force |-> force]
        auth == authMiddleware(token)
        guard == requireRole(contextUser(token), {"administrator", "editor"})
    IN  /\ UNCHANGED <<dbLinks, dbMedia, inflight, network>>
        /\ sent' = <<>>
        /\ UNCHANGED <<dbUsers, tokens, siteSettings, now, posts, nextPostId, postCategories,
                       catCount, dbComments, settingsCache, cacheTimestamp>>
        /\ IF ~Passed(auth)
           THEN /\ Handled(request, auth)
                /\ UNCHANGED <<postTags, tagCount>>
           ELSE IF ~Passed(guard)
           THEN /\ Handled(request, guard)
                /\ UNCHANGED <<postTags, tagCount>>
           ELSE IF id \notin DOMAIN tagCount
           THEN /\ Handled(request, createWPError("rest_term_invalid", 404))
                /\ UNCHANGED <<postTags, tagCount>>
           ELSE IF force
           THEN /\ postTags' = {l \in postTags : l[2] # id}
                /\ tagCount' = Without(tagCount, {id})
                /\ Handled(request, Response(200, "deleted", [id |-> id]))
           ELSE /\ Handled(request, createWPError("rest_trash_not_supported", 501))
                /\ UNCHANGED <<postTags, tagCount>>

\* the body of a moment: content (UndefinedText when absent) and status (Undefined
\* when absent)
MomentBody(content, status) == [content |-> content, status |-> status]

\* moments.post('/')
MomentsCreate(token, body) ==
    LET request == [op |-> "moments.post", token |-> token, body |-> body]
        auth == authMiddleware(token)
        user == contextUser(token)
        status == IF body.status = Undefined THEN "publish" ELSE body.status
        row == [content |-> body.content, author_id |-> user.userId, status |-> status]
    IN  /\ UNCHANGED <<dbLinks, inflight, network>>
        /\ sent' = <<>>
        /\ UNCHANGED <<dbUsers, tokens, siteSettings, now, dbPosts, dbComments, media,
                       nextMediaId, bucket>>
        /\ IF ~Passed(auth)
           THEN /\ Handled(request, auth)
                /\ UNCHANGED <<moments, nextMomentId, settingsCache, cacheTimestamp>>
           ELSE IF body.content = UndefinedText \/ trim(body.content) = <<>>
           THEN /\ Handled(request, createWPError("missing_content", 400))
                /\ UNCHANGED <<moments, nextMomentId, settingsCache, cacheTimestamp>>
           ELSE IF status \notin {"publish", "draft", "trash"}
           THEN /\ Handled(request, createWPError("invalid_status", 400))
                /\ UNCHANGED <<moments, nextMomentId, settingsCache, cacheTimestamp>>
           ELSE /\ nextMomentId <= MaxMoments
                /\ moments' = With(moments, nextMomentId, row)
                /\ nextMomentId' = nextMomentId + 1
                /\ GetSiteSettingsEffect
                /\ Handled(request,
                       Response(201, "ok", [id |-> nextMomentId, status |-> row.status,
                                            author |-> row.author_id]))

\* Faulty variant: the UPDATE leaves the status as it was
TrashedKeepsStatus(row) == row

\* UPDATE moments SET status = 'trash' WHERE id = ?
Trashed(row) == [row EXCEPT !.status = "trash"]

\* moments.delete('/:id')
MomentsDelete(token, id, force) ==
    LET request == [op |-> "moments.delete", token |-> token, id |-> id, force |-> force]
        auth == authMiddleware(token)
        user == contextUser(token)
        trashedMoment == Trashed(moments[id])
    IN  /\ UNCHANGED <<dbLinks, inflight, network>>
        /\ sent' = <<>>
        /\ UNCHANGED <<dbUsers, tokens, siteSettings, now, dbPosts, dbComments, nextMomentId,
                       media, nextMediaId, bucket>>
        /\ IF ~Passed(auth)
           THEN /\ Handled(request, auth)
                /\ UNCHANGED <<moments, settingsCache, cacheTimestamp>>
           ELSE IF id \notin DOMAIN moments
           THEN /\ Handled(request, createWPError("moment_not_found", 404))
                /\ UNCHANGED <<moments, settingsCache, cacheTimestamp>>
           ELSE IF moments[id].author_id # user.userId /\ user.role # "administrator"
           THEN /\ Handled(request, createWPError("forbidden", 403))
                /\ UNCHANGED <<moments, settingsCache, cacheTimestamp>>
           ELSE IF force
           THEN /\ moments' = Without(moments, {id})
                /\ Handled(request,
                       Response(200, "deleted", [id |-> id, status |-> moments[id].status,
                                                 author |-> moments[id].author_id]))
                /\ UNCHANGED <<settingsCache, cacheTimestamp>>
           ELSE /\ moments' = With(moments, id, trashedMoment)
                /\ GetSiteSettingsEffect
                /\ Handled(request,
                       Response(200, "ok", [id |-> id, status |-> trashedMoment.status,
                                            author |-> trashedMoment.author_id]))

\* the MIME types media.post accepts
allowedTypes == {"image/jpeg", "image/png", "image/gif", "image/webp", "image/svg+xml",
                 "video/mp4", "video/webm", "application/pdf"}

\* media.post('/'); file is the MIME type of the uploaded file (Undefined without a
\* file), put tells whether MEDIA.put succeeds
MediaCreate(token, file, put) ==
    LET request == [op |-> "media.post", token |-> token, file |-> file]
        auth == authMiddleware(token)
        user == contextUser(token)
        \* uploads/<year>/<month>/<timestamp>-<random>.<extension>, one per upload
        r2Key == nextMediaId
        row == [mime_type |-> file, r2_key |-> r2Key, author_id |-> user.userId]
    IN  /\ UNCHANGED <<dbLinks, inflight, network>>
        /\ sent' = <<>>
        /\ UNCHANGED <<dbUsers, tokens, siteSettings, now, dbPosts, dbComments, moments,
                       nextMomentId, settingsCache, cacheTimestamp>>
        /\ IF ~Passed(auth)
           THEN /\ Handled(request, auth)
                /\ UNCHANGED <<media, nextMediaId, bucket>>
           ELSE IF file = Undefined
           THEN /\ Handled(request, createWPError("rest_invalid_param", 400))
                /\ UNCHANGED <<media, nextMediaId, bucket>>
           ELSE IF file \notin allowedTypes
           THEN /\ Handled(request, createWPError("rest_invalid_file_type", 400))
                /\ UNCHANGED <<media, nextMediaId, bucket>>
           ELSE IF ~put
           THEN /\ Handled(request, createWPError("server_error", 500))
                /\ UNCHANGED <<media, nextMediaId, bucket>>
           ELSE /\ nextMediaId <= MaxMedia
                /\ bucket' = bucket \cup {r2Key}
                /\ media' = With(media, nextMediaId, row)
                /\ nextMediaId' = nextMediaId + 1
                /\ Handled(request,
                       Response(201, "ok", [id |-> nextMediaId, author |-> row.author_id]))

\* media.delete('/:id'); removed tells whether MEDIA.delete succeeds
MediaDelete(token, id, force, removed) ==
    LET request == [op |-> "media.delete", token |-> token, id |-> id, force |-> force]
        auth == authMiddleware(token)
        user == contextUser(token)
    IN  /\ UNCHANGED <<dbLinks, inflight, network>>
        /\ sent' = <<>>
        /\ UNCHANGED <<dbUsers, tokens, siteSettings, now, dbPosts, dbComments, moments,
                       nextMomentId, nextMediaId, settingsCache, cacheTimestamp>>
        /\ IF ~Passed(auth)
           THEN /\ Handled(request, auth)
                /\ UNCHANGED <<media, bucket>>
           ELSE IF id \notin DOMAIN media
           THEN /\ Handled(request, createWPError("rest_post_invalid_id", 404))
                /\ UNCHANGED <<media, bucket>>
           ELSE IF /\ media[id].author_id # user.userId
                   /\ user.role \notin {"administrator", "editor"}
           THEN /\ Handled(request, createWPError("rest_cannot_delete", 403))
                /\ UNCHANGED <<media, bucket>>
           ELSE IF ~force
           THEN /\ Handled(request, createWPError("rest_trash_not_supported", 501))
                /\ UNCHANGED <<media, bucket>>
           ELSE IF ~removed
           THEN /\ Handled(request, createWPError("server_error", 500))
                /\ UNCHANGED <<media, bucket>>
           ELSE /\ bucket' = bucket \ {media[id].r2_key}
                /\ media' = Without(media, {id})
                /\ Handled(request, Response(200, "deleted", [id |-> id]))

(***************************************************************************)
(* Requests that overlap.  A handler is suspended at every await; the      *)
(* steps below cut posts.post('/'), pages.post('/') and pages.put('/:id')  *)
(* between the slug lookups and the statement that writes the row, so that *)
(* other requests run in between.                                          *)
(***************************************************************************)
\* Faulty variant: the posts table without UNIQUE(slug)
SlugTakenUnenforced(slug, id) == FALSE

\* slug TEXT UNIQUE NOT NULL: a row other than id holds the slug
SlugTaken(slug, id) == \E p \in DOMAIN posts \ {id} : posts[p].slug = slug

Suspend(c, state) == inflight' = [inflight EXCEPT ![c] = state]
Resume(c) == inflight' = [inflight EXCEPT ![c] = Idle]

\* posts.post('/') up to the slug the request asks for
PostsCreateBegin(c, token, body, ai) ==
    LET request == [op |-> "posts.create", token |-> token, body |-> body, ai |-> ai]
        auth == authMiddleware(token)
        user == contextUser(token)
        postStatus == IF body.status = Undefined THEN "draft" ELSE body.status
        postSlug == RequestedSlug(body.slug, body.title, ai, "")
    IN  /\ inflight[c] = Idle
        /\ UNCHANGED <<stored, tokens, now, network, sent>>
        /\ IF ~Passed(auth)
           THEN /\ Handled(request, auth)
                /\ UNCHANGED <<inflight, settingsCache, cacheTimestamp>>
           ELSE /\ GetSiteSettingsEffect
                /\ IF body.title = UndefinedText \/ body.title = <<>>
                   THEN /\ Handled(request, createWPError("rest_invalid_param", 400))
                        /\ UNCHANGED inflight
                   ELSE IF postStatus = "publish" /\ ~canPublishPost(user)
                   THEN /\ Handled(request, createWPError("rest_cannot_publish", 403))
                        /\ UNCHANGED inflight
                   ELSE /\ Suspend(c, [pc |-> "select", request |-> request,
                                       baseSlug |-> postSlug, postSlug |-> postSlug,
                                       counter |-> 1])
                        /\ UNCHANGED <<req, resp>>

\* posts.post('/'): one SELECT id FROM posts WHERE slug = ? of the uniqueness loop
PostsCreateSelect(c) ==
    LET state == inflight[c]
    IN  /\ state.pc = "select"
        /\ state.request.op = "posts.create"
        /\ UNCHANGED <<stored, tokens, now, network, sent, settingsCache, cacheTimestamp,
                       req, resp>>
        /\ IF SlugExists(state.postSlug)
           THEN Suspend(c, [state EXCEPT
                               !.postSlug = state.baseSlug \o "-" \o ToString(state.counter),
                               !.counter = @ + 1])
           ELSE Suspend(c, [state EXCEPT !.pc = "insert"])

\* posts.post('/') from the INSERT to the response
PostsCreateInsert(c, aiExcerpt) ==
    LET state == inflight[c]
        request == state.request
        body == request.body
        user == contextUser(request.token)
        postStatus == IF body.status = Undefined THEN "draft" ELSE body.status
        event == CreatedEvent(postStatus)
        postId == nextPostId
        row == [title |-> Join(body.title),
                content |-> IF body.content = Undefined THEN "" ELSE body.content,
                excerpt |-> IF body.content = Undefined THEN ""
                            ELSE generateExcerptWithAI(aiExcerpt, body.content),
                slug |-> state.postSlug, status |-> postStatus, post_type |-> "post",
                author_id |-> user.userId,
                published_at |-> IF postStatus = "publish" THEN now ELSE 0,
                created_at |-> now, comment_count |-> 0, view_count |-> 0]
        cats == AttachTerms(postId, BodyTerms(body.categories), postCategories, catCount)
        tags == AttachTerms(postId, BodyTerms(body.tags), postTags, tagCount)
    IN  /\ state.pc = "insert"
        /\ request.op = "posts.create"
        /\ Resume(c)
        /\ UNCHANGED network
        /\ UNCHANGED <<dbUsers, tokens, siteSettings, now, dbComments, dbLinks, dbMedia,
                       settingsCache, cacheTimestamp>>
        /\ IF \/ SlugTaken(state.postSlug, postId)
              \/ postStatus \notin PostStatuses
              \/ user.userId \notin DOMAIN users
           THEN \* UNIQUE(slug), CHECK(status IN ...) or FOREIGN KEY (author_id) fails the INSERT
                /\ Handled(request, createWPError("server_error", 500))
                /\ sent' = <<>>
                /\ UNCHANGED dbPosts
           ELSE /\ nextPostId <= MaxPosts
                /\ posts' = With(posts, postId, row)
                /\ nextPostId' = nextPostId + 1
                /\ postCategories' = cats.links
                /\ catCount' = cats.counts
                /\ CountsCapped(cats.counts)
                /\ IF ~cats.ok
                   THEN /\ Handled(request, createWPError("server_error", 500))
                        /\ sent' = <<>>
                        /\ UNCHANGED <<postTags, tagCount>>
                   ELSE /\ postTags' = tags.links
                        /\ tagCount' = tags.counts
                        /\ CountsCapped(tags.counts)
                        /\ IF ~tags.ok
                           THEN /\ Handled(request, createWPError("server_error", 500))
                                /\ sent' = <<>>
                           ELSE /\ sent' = sendWebhook(getSiteSettings, event)
                                /\ Handled(request,
                                       AfterWebhook(getSiteSettings, event,
                                           createWPError("server_error", 500),
                                           Response(201, "ok",
                                           formatPostResponse(postId, row,
                                               Range(BodyTerms(body.categories)),
                                               Range(BodyTerms(body.tags))))))

\* the body of a page response
PageResponse(id, row) ==
    [id |-> id, slug |-> row.slug, status |-> row.status, type |-> "page",
     title |-> row.title, author |-> row.author_id]

\* pages.post('/') up to the lookup of a page with the slug
PagesCreateCheck(c, token, body) ==
    LET request == [op |-> "pages.create", token |-> token, body |-> body]
        auth == authMiddleware(token)
        pageSlug == IF body.slug # UndefinedText /\ trim(body.slug) # <<>>
                    THEN Join(trim(body.slug)) ELSE generateSlug(body.title)
    IN  /\ inflight[c] = Idle
        /\ UNCHANGED <<stored, tokens, now, network, sent>>
        /\ IF ~Passed(auth)
           THEN /\ Handled(request, auth)
                /\ UNCHANGED <<inflight, settingsCache, cacheTimestamp>>
           ELSE /\ GetSiteSettingsEffect
                /\ IF body.title = UndefinedText \/ body.title = <<>>
                   THEN /\ Handled(request, createWPError("rest_missing_callback_param", 400))
                        /\ UNCHANGED inflight
                   ELSE IF \E p \in DOMAIN posts :
                              posts[p].slug = pageSlug /\ posts[p].post_type = "page"
                   THEN /\ Handled(request, createWPError("rest_slug_exists", 400))
                        /\ UNCHANGED inflight
                   ELSE /\ Suspend(c, [pc |-> "insert", request |-> request,
                                       postSlug |-> pageSlug])
                        /\ UNCHANGED <<req, resp>>

\* pages.post('/') from the INSERT to the response
PagesCreateInsert(c) ==
    LET state == inflight[c]
        request == state.request
        body == request.body
        user == contextUser(request.token)
        pageStatus == IF body.status = Undefined THEN "draft" ELSE body.status
        pageId == nextPostId
        row == [title |-> Join(body.title), content |-> "", excerpt |-> "",
                slug |-> state.postSlug, status |-> pageStatus, post_type |-> "page",
                author_id |-> user.userId,
                published_at |-> IF pageStatus = "publish" THEN now ELSE 0,
                created_at |-> now, comment_count |-> 0, view_count |-> 0]
    IN  /\ state.pc = "insert"
        /\ request.op = "pages.create"
        /\ Resume(c)
        /\ UNCHANGED network
        /\ sent' = <<>>
        /\ UNCHANGED <<dbUsers, tokens, siteSettings, now, postCategories, postTags,
                       catCount, tagCount, dbComments, dbLinks, dbMedia, settingsCache,
                       cacheTimestamp>>
        /\ IF \/ SlugTaken(state.postSlug, pageId)
              \/ pageStatus \notin PostStatuses
              \/ user.userId \notin DOMAIN users
           THEN /\ Handled(request, createWPError("rest_internal_error", 500))
                /\ UNCHANGED <<posts, nextPostId>>
           ELSE /\ nextPostId <= MaxPosts
                /\ posts' = With(posts, pageId, row)
                /\ nextPostId' = nextPostId + 1
                /\ Handled(request, Response(201, "ok", PageResponse(pageId, row)))

\* pages.put('/:id') up to the lookup of another page with the slug;
\* body = [title, slug, status]
PagesUpdateCheck(c, token, id, body) ==
    LET request == [op |-> "pages.update", token |-> token, id |-> id, body |-> body]
        auth == authMiddleware(token)
        hasSlug == body.slug # UndefinedText /\ trim(body.slug) # <<>>
    IN  /\ inflight[c] = Idle
        /\ UNCHANGED <<stored, tokens, now, network, sent>>
        /\ IF ~Passed(auth)
           THEN /\ Handled(request, auth)
                /\ UNCHANGED <<inflight, settingsCache, cacheTimestamp>>
           ELSE /\ GetSiteSettingsEffect
                /\ IF id \notin DOMAIN posts \/ posts[id].post_type # "page"
                   THEN /\ Handled(request, createWPError("rest_page_invalid", 404))
                        /\ UNCHANGED inflight
                   ELSE IF /\ hasSlug
                           /\ \E p \in DOMAIN posts \ {id} :
                                  /\ posts[p].slug = Join(trim(body.slug))
                                  /\ posts[p].post_type = "page"
                   THEN /\ Handled(request, createWPError("rest_slug_exists", 400))
                        /\ UNCHANGED inflight
                   ELSE /\ Suspend(c, [pc |-> "update", request |-> request,
                                       existingPage |-> posts[id],
                                       postSlug |-> IF hasSlug THEN Join(trim(body.slug))
                                                    ELSE Undefined])
                        /\ UNCHANGED <<req, resp>>

\* pages.put('/:id') from the UPDATE to the response
PagesUpdateWrite(c) ==
    LET state == inflight[c]
        request == state.request
        body == request.body
        id == request.id
        existingPage == state.existingPage
        row == [posts[id] EXCEPT
                  !.title = IF body.title # UndefinedText THEN Join(body.title) ELSE @,
                  !.slug = IF state.postSlug # Undefined THEN state.postSlug ELSE @,
                  !.status = IF body.status # Undefined THEN body.status ELSE @,
                  !.published_at = IF body.status = "publish"
                                      /\ existingPage.status # "publish" THEN now ELSE @]
    IN  /\ state.pc = "update"
        /\ request.op = "pages.update"
        /\ Resume(c)
        /\ UNCHANGED network
        /\ sent' = <<>>
        /\ UNCHANGED <<dbUsers, tokens, siteSettings, now, nextPostId, postCategories,
                       postTags, catCount, tagCount, dbComments, dbLinks, dbMedia, settingsCache,
                       cacheTimestamp>>
        /\ IF id \notin DOMAIN posts
           THEN \* the row is gone: the UPDATE changes nothing and the SELECT finds no
                \* row to format
                /\ Handled(request, createWPError("rest_internal_error", 500))
                /\ UNCHANGED posts
           ELSE IF \/ (state.postSlug # Undefined /\ SlugTaken(state.postSlug, id))
                   \/ row.status \notin PostStatuses
           THEN \* UNIQUE(slug) or CHECK(status IN ...) fails the UPDATE
                /\ Handled(request, createWPError("rest_internal_error", 500))
                /\ UNCHANGED posts
           ELSE /\ posts' = With(posts, id, row)
                /\ Handled(request, Response(200, "ok", PageResponse(id, row)))

\* getSiteSettings up to its await: it returns the cached map, or sends the query
GetSiteSettingsBegin(c) ==
    LET request == [op |-> "getSiteSettings", token |-> NoToken, client |-> c]
    IN  /\ inflight[c] = Idle
        /\ sent' = <<>>
        /\ UNCHANGED <<stored, tokens, settingsCache, cacheTimestamp, now, network>>
        /\ IF CacheFresh
           THEN /\ Handled(request, Response(200, "cached", settingsCache.map))
                /\ UNCHANGED inflight
           ELSE /\ Suspend(c, [pc |-> "query", request |-> request, now |-> now,
                               result |-> siteSettings])
                /\ UNCHANGED <<req, resp>>

\* Faulty variant: the error of the query reaches the caller
QueryFailedRethrows == createWPError("server_error", 500)

\* getSiteSettings: the catch block returns the hardcoded defaults
QueryFailed == Response(200, "defaults", DefaultSettings)

\* getSiteSettings after its await: the query has answered with the rows it read, or
\* has thrown
GetSiteSettingsEnd(c) ==
    LET call == inflight[c]
        settings == SettingsOf(call.result)
    IN  /\ call.pc = "query"
        /\ Resume(c)
        /\ sent' = <<>>
        /\ UNCHANGED <<stored, tokens, now, network>>
        /\ IF network = "lookup-error"
           THEN /\ Handled(call.request, QueryFailed)
                /\ UNCHANGED <<settingsCache, cacheTimestamp>>
           ELSE /\ settingsCache' = [present |-> TRUE, map |-> settings]
                /\ cacheTimestamp' = call.now
                /\ Handled(call.request, Response(200, "queried", settings))

\* comments.delete('/:id') up to the SELECT that finds the comment
CommentsDeleteLookup(c, token, id, force) ==
    LET request == [op |-> "comments.delete", token |-> token, id |-> id, force |-> force]
        auth == authMiddleware(token)
        isAdmin == contextUser(token).role \in {"administrator", "editor"}
    IN  /\ inflight[c] = Idle
        /\ sent' = <<>>
        /\ UNCHANGED <<stored, tokens, now, network>>
        /\ IF ~Passed(auth)
           THEN /\ Handled(request, auth)
                /\ UNCHANGED <<inflight, settingsCache, cacheTimestamp>>
           ELSE /\ GetSiteSettingsEffect
                /\ IF id \notin DOMAIN comments
                   THEN /\ Handled(request, createWPError("rest_comment_invalid_id", 404))
                        /\ UNCHANGED inflight
                   ELSE IF ~isAdmin
                   THEN /\ Handled(request, createWPError("rest_cannot_delete", 403))
                        /\ UNCHANGED inflight
                   ELSE /\ Suspend(c, [pc |-> "delete", request |-> request,
                                       comment |-> comments[id]])
                        /\ UNCHANGED <<req, resp>>

\* comments.delete('/:id') from the DELETE or UPDATE of the row to the response
CommentsDeleteWrite(c) ==
    LET state == inflight[c]
        request == state.request
        id == request.id
        comment == state.comment
        trashed == [comments[id] EXCEPT !.status = "trash"]
    IN  /\ state.pc = "delete"
        /\ Resume(c)
        /\ UNCHANGED <<dbUsers, tokens, siteSettings, now, nextPostId, postCategories,
                       postTags, catCount, tagCount, nextCommentId, dbLinks, dbMedia, network,
                       settingsCache, cacheTimestamp>>
        /\ IF request.force
           THEN \* DELETE FROM comments WHERE id = ?, then comment_count - 1 on the post
                \* the SELECT has read
                /\ comments' = Without(comments, {id})
                /\ posts' = [p \in DOMAIN posts |->
                               IF p = comment.post_id
                               THEN [posts[p] EXCEPT !.comment_count = @ - 1]
                               ELSE posts[p]]
                /\ sent' = sendWebhook(getSiteSettings, "comment.deleted")
                /\ Handled(request,
                       AfterWebhook(getSiteSettings, "comment.deleted",
                           createWPError("rest_internal_error", 500),
                           Response(200, "deleted", formatCommentResponse(id, comment, TRUE))))
           ELSE IF id \notin DOMAIN comments
           THEN \* the row is gone: the UPDATE changes nothing and the SELECT answers null
                /\ Handled(request, createWPError("rest_internal_error", 500))
                /\ sent' = <<>>
                /\ UNCHANGED <<posts, comments>>
           ELSE /\ comments' = With(comments, id, trashed)
                /\ sent' = sendWebhook(getSiteSettings, "comment.updated")
                /\ Handled(request,
                       AfterWebhook(getSiteSettings, "comment.updated",
                           createWPError("rest_internal_error", 500),
                           Response(200, "ok", formatCommentResponse(id, trashed, TRUE))))
                /\ UNCHANGED posts

\* users.post('/register') up to the COUNT(*) that decides the role
UsersRegisterCount(c, body) ==
    LET request == [op |-> "users.register", token |-> NoToken, body |-> body]
    IN  /\ inflight[c] = Idle
        /\ GetSiteSettingsEffect
        /\ sent' = <<>>
        /\ UNCHANGED <<stored, tokens, now, network>>
        /\ IF body.username = Undefined \/ body.email = Undefined \/ body.password = Undefined
           THEN /\ Handled(request, createWPError("rest_invalid_param", 400))
                /\ UNCHANGED inflight
           ELSE IF UsernameTaken(body.username) \/ EmailTaken(body.email)
           THEN /\ Handled(request, createWPError("existing_user_login", 400))
                /\ UNCHANGED inflight
           ELSE /\ Suspend(c, [pc |-> "hash", request |-> request, userRole |-> RegisterRole])
                /\ UNCHANGED <<req, resp>>

\* users.post('/register') from the INSERT, after hashPassword, to the response
UsersRegisterInsert(c) ==
    LET state == inflight[c]
        request == state.request
        body == request.body
        row == [username |-> body.username, email |-> body.email,
                role |-> state.userRole, status |-> "active"]
        id == nextUserId
        token == generateToken(id, row)
    IN  /\ state.pc = "hash"
        /\ Resume(c)
        /\ sent' = <<>>
        /\ UNCHANGED <<siteSettings, now, dbPosts, dbComments, dbLinks, dbMedia, network,
                       settingsCache, cacheTimestamp>>
        /\ IF UsernameTaken(body.username) \/ EmailTaken(body.email)
           THEN \* username TEXT UNIQUE / email TEXT UNIQUE fails the INSERT
                /\ Handled(request, createWPError("server_error", 500))
                /\ UNCHANGED <<users, nextUserId, tokens>>
           ELSE /\ nextUserId <= MaxUsers
                /\ Cardinality(tokens \cup {token}) <= MaxTokens
                /\ users' = With(users, id, row)
                /\ nextUserId' = nextUserId + 1
                /\ tokens' = tokens \cup {token}
                /\ Handled(request,
                       Response(201, "ok", [token |-> token,
                                            user |-> formatUserResponse(id, row, TRUE)]))

\* the endpoint, the network, the store or the signing key changes its behaviour
NetworkTurns(outcome) ==
    /\ network # outcome
    /\ network' = outcome
    /\ UNCHANGED <<stored, tokens, settingsCache, cacheTimestamp, now, req, resp, sent,
                   inflight>>

\* time passes
Tick ==
    /\ now < CACHE_TTL + MaxNow * TickMs
    /\ now' = now + TickMs
    /\ UNCHANGED <<stored, tokens, settingsCache, cacheTimestamp, req, resp, sent, inflight,
                   network>>

(***************************************************************************)
(* Initial states.                                                         *)
(***************************************************************************)
NoRequest  == [op |-> "none", token |-> NoToken]
Empty      == [i \in {} |-> 0]   \* a table with no rows

AllEvents ==
    <<"post.created", ",", "post.updated", ",", "post.published", ",", "post.deleted", ",",
      "comment.created", ",", "comment.updated", ",", "comment.deleted">>

\* the site_settings rows schema.sql inserts (of the keys the model follows)
SeededSettings ==
    [k \in {"site_title", "webhook_url", "webhook_secret", "webhook_events"} |->
        CASE k = "site_title" -> "CFBlog"
          [] k = "webhook_events" -> AllEvents
          [] OTHER -> ""]

\* a fresh deployment: schema.sql applied (category 1 is 'Uncategorized'),
\* no user registered yet
\* the moments and media tables and the MEDIA bucket of a new deployment
NoMedia ==
    /\ moments = Empty
    /\ nextMomentId = 1
    /\ media = Empty
    /\ nextMediaId = 1
    /\ bucket = {}

Init ==
    /\ users = Empty
    /\ nextUserId = 1
    /\ tokens = {}
    /\ siteSettings = SeededSettings
    /\ settingsCache = NoCache
    /\ cacheTimestamp = 0
    /\ now = CACHE_TTL
    /\ posts = Empty
    /\ nextPostId = 1
    /\ postCategories = {}
    /\ postTags = {}
    /\ catCount = [c \in {1} |-> 0]
    /\ tagCount = Empty
    /\ comments = Empty
    /\ nextCommentId = 1
    /\ req = NoRequest
    /\ resp = Response(0, "none", <<>>)
    /\ sent = <<>>
    /\ linkRows = Empty
    /\ nextLinkId = 1
    /\ linkCatCount = [c \in {1} |-> 0]
    /\ inflight = NoneInFlight
    /\ network = "ok"
    /\ NoMedia

\* a staffed site: the first registrant (administrator) has created one account
\* per other role, everyone has logged in, and a second category and a tag exist
Staff ==
    [i \in 1..5 |->
        [username |-> CASE i = 1 -> "ann" [] i = 2 -> "ed" [] i = 3 -> "bob"
                        [] i = 4 -> "cy" [] OTHER -> "sue",
         email |-> CASE i = 1 -> "ann@x.io" [] i = 2 -> "ed@x.io" [] i = 3 -> " Bob@X.io "
                     [] i = 4 -> "cy@x.io" [] OTHER -> "sue@x.io",
         role |-> CASE i = 1 -> "administrator" [] i = 2 -> "editor" [] i = 3 -> "author"
                    [] i = 4 -> "contributor" [] OTHER -> "subscriber",
         status |-> "active"]]

InitStaffed ==
    /\ users = Staff
    /\ nextUserId = 6
    /\ tokens = {generateToken(i, Staff[i]) : i \in DOMAIN Staff}
    /\ siteSettings = SeededSettings
    /\ settingsCache = NoCache
    /\ cacheTimestamp = 0
    /\ now = CACHE_TTL
    /\ posts = Empty
    /\ nextPostId = 1
    /\ postCategories = {}
    /\ postTags = {}
    /\ catCount = [c \in {1, 2} |-> 0]
    /\ tagCount = [t \in {1} |-> 0]
    /\ comments = Empty
    /\ nextCommentId = 1
    /\ req = NoRequest
    /\ resp = Response(0, "none", <<>>)
    /\ sent = <<>>
    /\ linkRows = Empty
    /\ nextLinkId = 1
    /\ linkCatCount = [c \in {1, 2} |-> 0]
    /\ inflight = NoneInFlight
    /\ network = "ok"
    /\ NoMedia

(***************************************************************************)
(* Users and settings: registration, login, user administration, settings. *)
(***************************************************************************)
UserBody(username, email, password, role) ==
    [username |-> username, email |-> email, password |-> password, role |-> role]

RegisterBodies ==
    {UserBody("ann", "ann@x.io", "pw", Undefined),
     UserBody("bob", " Bob@X.io ", "pw", "administrator"),
     UserBody("cy", "ann@x.io", "pw", Undefined),
     UserBody("ann", "cy@x.io", "pw", "editor"),
     UserBody("cy", Undefined, "pw", "administrator")}

CreateBodies ==
    {UserBody("bob", " Bob@X.io ", "pw", "administrator"),
     UserBody("cy", "cy@x.io", "pw", Undefined),
     UserBody("cy", "cy@x.io", Undefined, "author"),
     UserBody("cy", "cy@x.io", "pw", "owner")}

UpdateBodies ==
    {[email |-> Undefined, role |-> Undefined],
     [email |-> "cy@x.io", role |-> Undefined],
     [email |-> Undefined, role |-> "editor"],
     [email |-> Undefined, role |-> "subscriber"]}

UserIds == 1..(MaxUsers + 1)

SettingsBodies ==
    {("webhook_secret" :> "s3cret"),
     ("webhook_url" :> "https://hook"),
     ("site_title" :> "Blog") @@ ("webhook_secret" :> "k2")}

\* Registration against a table that user administration fills and empties.
NextRegister ==
    \/ \E body \in RegisterBodies : UsersRegister(body)
    \/ \E login \in {"bob", "cy@x.io", Undefined}, passwordOk \in BOOLEAN :
           UsersLogin(login, passwordOk)
    \/ /\ nextUserId <= MaxUsers
       /\ \E token \in Bearers, body \in CreateBodies : UsersCreate(token, body)
    \/ \E token \in Bearers, id \in UserIds, force \in BOOLEAN :
           UsersDelete(token, id, force, 0)

SpecRegister == Init /\ [][NextRegister]_vars

(***************************************************************************)
(* Posts: who may create, publish, edit and delete.                        *)
(***************************************************************************)
HelloWorld == <<"H", "e", "l", "l", "o", " ", "W", "o", "r", "l", "d">>
AiHello    == <<"S", "l", "u", "g", ":", " ", "h", "e", "l", "l", "o">>

PostBody(title, content, slug, status, categories, tags) ==
    [title |-> title, content |-> content, slug |-> slug, status |-> status,
     categories |-> categories, tags |-> tags]

PostIds == 1..(MaxAuthored + 1)

StatusBody(status) == PostBody(HelloWorld, Undefined, UndefinedText, status, NoList, NoList)
StatusChange(status) == PostBody(UndefinedText, Undefined, UndefinedText, status, NoList, NoList)

\* publishing: every bearer creates drafts and published posts and asks for a
\* status change of every post
NextPublish ==
    \/ /\ nextPostId <= MaxAuthored
       /\ \E token \in Bearers, status \in {"draft", "publish"} :
              PostsCreate(token, StatusBody(status), AiHello, "ai-failed")
    \/ \E token \in Bearers, id \in PostIds, status \in {"publish", "draft"} :
           PostsUpdate(token, id, StatusChange(status), AiHello, "ai-failed")

SpecPublish == InitStaffed /\ [][NextPublish]_vars

\* editing: every bearer creates categorised drafts and rewrites every post
EditBody == PostBody(<<"e", "d">>, Undefined, UndefinedText, Undefined, <<2>>, <<1>>)

NextEdit ==
    \/ /\ nextPostId <= MaxAuthored
       /\ \E token \in Bearers :
              PostsCreate(token, PostBody(HelloWorld, Undefined, UndefinedText, Undefined,
                                          <<1>>, NoList), AiHello, "ai-failed")
    \/ \E token \in Bearers, id \in PostIds :
           PostsUpdate(token, id, EditBody, AiHello, "ai-failed")

SpecEdit == InitStaffed /\ [][NextEdit]_vars

\* deleting: every bearer creates drafts and deletes or trashes every post
NextDelete ==
    \/ /\ nextPostId <= MaxAuthored
       /\ \E token \in Bearers :
              PostsCreate(token, PostBody(HelloWorld, Undefined, UndefinedText, Undefined,
                                          <<1>>, NoList), AiHello, "ai-failed")
    \/ \E token \in Bearers, id \in PostIds, force \in BOOLEAN : PostsDelete(token, id, force)

SpecDelete == InitStaffed /\ [][NextDelete]_vars

(***************************************************************************)
(* Routes behind requireRole, asked by every bearer of the staffed site.   *)
(***************************************************************************)
NextGuarded ==
    \/ /\ nextUserId <= MaxStaff
       /\ \E token \in Bearers :
              \E body \in {UserBody("zed", "zed@x.io", "pw", "author"),
                            UserBody("ann", "zed@x.io", "pw", Undefined)} :
                  UsersCreate(token, body)
    \/ \E token \in Bearers, id \in {1, 5, MaxStaff + 1}, force \in BOOLEAN :
           UsersDelete(token, id, force, 0)
    \/ \E token \in Bearers : SettingsGetAdmin(token)
    \/ \E token \in Bearers : SettingsPut(token, ("site_title" :> "Blog"), FALSE)
    \/ \E token \in Bearers : SettingsPut(token, ("webhook_secret" :> "s3cret"), TRUE)
    \/ \E token \in Bearers, id \in {1, 2}, force \in BOOLEAN :
           CategoriesDelete(token, id, force)

SpecGuarded == InitStaffed /\ [][NextGuarded]_vars

(***************************************************************************)
(* Reading users while an administrator edits accounts.                    *)
(***************************************************************************)
NextUsersRead ==
    \/ \E token \in Bearers, roleFilter \in {Undefined, "author"} : UsersList(token, roleFilter)
    \/ \E token \in Bearers, id \in {1, 3, MaxStaff} : UsersGet(token, id)
    \/ \E token \in Bearers, id \in {3, 5} :
           \E body \in {[email |-> "b@x.io", role |-> Undefined],
                         [email |-> Undefined, role |-> "author"]} :
               UsersUpdate(token, id, body)

SpecUsersRead == InitStaffed /\ [][NextUsersRead]_vars

(***************************************************************************)
(* Settings: written by administrators, read by everybody.                 *)
(***************************************************************************)
NextSettings ==
    \/ \E token \in Bearers, entries \in SettingsBodies : SettingsPut(token, entries, FALSE)
    \/ \E token \in Bearers, key \in sensitiveFields, value \in {"", "k3"} :
           SettingsPut(token, (key :> value), TRUE)
    \/ \E token \in Bearers : SettingsGetAdmin(token)
    \/ \E token \in Bearers : SettingsGet(token)
    \/ \E token \in Bearers, key \in SettingKeys \cup {"missing"} : SettingsGetKey(token, key)

SpecSettings == InitStaffed /\ [][NextSettings]_vars

(***************************************************************************)
(* Reading posts that every bearer writes and trashes.                     *)
(***************************************************************************)
NextPostsRead ==
    \/ /\ nextPostId <= MaxAuthored
       /\ \E token \in Bearers, status \in {"draft", "publish"} :
              PostsCreate(token, StatusBody(status), AiHello, "ai-failed")
    \/ \E token \in Bearers, status \in {Undefined, "draft", "trash"} : PostsList(token, status)
    \/ \E token \in Bearers, id \in PostIds : PostsGet(token, id)
    \/ \E token \in Bearers, id \in PostIds : PostsDelete(token, id, FALSE)

SpecPostsRead == InitStaffed /\ [][NextPostsRead]_vars

(***************************************************************************)
(* Comments: written by guests and members, read by every bearer.          *)
(***************************************************************************)
StaffToken(id) == Jwt(generateToken(id, Staff[id]))
\* the tokens of the five members of staff
AnnToken == StaffToken(1)
EdToken  == StaffToken(2)
BobToken == StaffToken(3)
CyToken  == StaffToken(4)
SueToken == StaffToken(5)

CommentBody(post, parent, name, email, content) ==
    [post |-> post, parent |-> parent, author_name |-> name, author_email |-> email,
     content |-> content]

\* a member's comment carries no author fields
MemberComment == CommentBody(1, 0, Undefined, Undefined, "hi")
GuestComment  == CommentBody(1, 0, "guest", "guest@x.io", "hi")

CommentBodies ==
    {CommentBody(1, 0, "guest", "guest@x.io", "hi"),
     CommentBody(1, 1, "guest", "guest@x.io", "hi"),
     CommentBody(1, 0, "guest", Undefined, "hi"),
     CommentBody(2, 0, "guest", "nope", "hi")}

\* the staffed site after its author has published "Hello World"
InitBlog ==
    /\ users = Staff
    /\ nextUserId = 6
    /\ tokens = {generateToken(i, Staff[i]) : i \in DOMAIN Staff}
    /\ siteSettings = SeededSettings
    /\ settingsCache = [present |-> TRUE, map |-> MergedSettings]
    /\ cacheTimestamp = CACHE_TTL
    /\ now = CACHE_TTL
    /\ posts = [p \in {1} |->
                  [title |-> "Hello World", content |-> "", excerpt |-> "",
                   slug |-> "hello-world", status |-> "publish", post_type |-> "post",
                   author_id |-> 3, published_at |-> CACHE_TTL, created_at |-> CACHE_TTL,
                   comment_count |-> 0, view_count |-> 0]]
    /\ nextPostId = 2
    /\ postCategories = {}
    /\ postTags = {}
    /\ catCount = [c \in {1, 2} |-> 0]
    /\ tagCount = [t \in {1} |-> 0]
    /\ comments = Empty
    /\ nextCommentId = 1
    /\ req = NoRequest
    /\ resp = Response(0, "none", <<>>)
    /\ sent = <<>>
    /\ linkRows = Empty
    /\ nextLinkId = 1
    /\ linkCatCount = [c \in {1, 2} |-> 0]
    /\ inflight = NoneInFlight
    /\ network = "ok"
    /\ NoMedia

NextComments ==
    \/ \E body \in CommentBodies : CommentsCreate(NoToken, body, "10.0.0.7")
    \/ \E token \in {AnnToken, BobToken} : CommentsCreate(token, MemberComment, "")
    \/ \E token \in Bearers, status \in {Undefined, "trash"} : CommentsList(token, status)
    \/ \E token \in Bearers, id \in 1..(MaxComments + 1) : CommentsGet(token, id)
    \/ \E token \in {NoToken, EdToken, CyToken}, id \in 1..MaxComments :
           CommentsDelete(token, id, FALSE)

SpecComments == InitBlog /\ [][NextComments]_vars

(***************************************************************************)
(* Slugs: one author writes posts and pages whose slugs collide, an editor *)
(* deletes them.                                                           *)
(***************************************************************************)
PaddedSlug == <<" ", "h", "e", "l", "l", "o", "-", "w", "o", "r", "l", "d", "-", "1", " ">>
SlugBody(slug) == PostBody(HelloWorld, Undefined, slug, Undefined, NoList, NoList)
SlugChange(slug) == PostBody(UndefinedText, Undefined, slug, Undefined, NoList, NoList)
SlugBodies == {SlugBody(UndefinedText), SlugBody(PaddedSlug)}
PublishedBody == StatusBody("publish")

NextSlug ==
    \/ \E body \in SlugBodies, ai \in {AiThrows, AiHello, <<"?">>} :
           PostsCreate(BobToken, body, ai, "ai-failed")
    \/ PagesCreate(BobToken, PublishedBody)
    \/ \E id \in 1..MaxPosts : PostsDelete(EdToken, id, TRUE)

SpecSlug == InitStaffed /\ [][NextSlug]_vars

(***************************************************************************)
(* Overlapping requests: two clients create posts and pages and rename     *)
(* them, all asking for the same slugs.                                    *)
(***************************************************************************)
HelloSlug  == <<"h", "e", "l", "l", "o">>
Hello1Slug == <<"h", "e", "l", "l", "o", "-", "1">>
TitledBody   == SlugBody(UndefinedText)
HelloBody    == SlugBody(HelloSlug)
Hello1Change == SlugChange(Hello1Slug)

NextRace ==
    \/ \E c \in Clients : PostsCreateBegin(c, BobToken, TitledBody, AiHello)
    \/ \E c \in Clients : PostsCreateSelect(c)
    \/ \E c \in Clients : PostsCreateInsert(c, "ai-failed")
    \/ \E c \in Clients : PagesCreateCheck(c, BobToken, HelloBody)
    \/ \E c \in Clients : PagesCreateInsert(c)
    \/ \E id \in 1..MaxPosts : PostsUpdate(EdToken, id, Hello1Change, AiHello, "ai-failed")
    \/ \E c \in Clients, id \in 1..MaxPosts :
           PagesUpdateCheck(c, EdToken, id, Hello1Change)
    \/ \E c \in Clients : PagesUpdateWrite(c)

SpecRace == InitStaffed /\ [][NextRace]_vars

(***************************************************************************)
(* Taxonomy counters: an author files posts under categories and tags,     *)
(* refiles them, and an editor trashes and deletes them.                   *)
(***************************************************************************)
\* the staffed site with three categories and three tags
InitTaxonomy ==
    /\ users = Staff
    /\ nextUserId = 6
    /\ tokens = {generateToken(i, Staff[i]) : i \in DOMAIN Staff}
    /\ siteSettings = SeededSettings
    /\ settingsCache = NoCache
    /\ cacheTimestamp = 0
    /\ now = CACHE_TTL
    /\ posts = Empty
    /\ nextPostId = 1
    /\ postCategories = {}
    /\ postTags = {}
    /\ catCount = [c \in {1, 2, 3} |-> 0]
    /\ tagCount = [t \in {1, 2, 3} |-> 0]
    /\ comments = Empty
    /\ nextCommentId = 1
    /\ req = NoRequest
    /\ resp = Response(0, "none", <<>>)
    /\ sent = <<>>
    /\ linkRows = Empty
    /\ nextLinkId = 1
    /\ linkCatCount = [c \in {1, 2} |-> 0]
    /\ inflight = NoneInFlight
    /\ network = "ok"
    /\ NoMedia

\* the categories and tags arrays of the bodies
Filings == {<<NoList, NoList>>, <<<<1, 2>>, <<1, 2>>>>, <<<<2, 3>>, <<2, 3>>>>,
            <<<<1, 1>>, NoList>>}

FiledBody(title, filing) ==
    PostBody(title, Undefined, UndefinedText, Undefined, filing[1], filing[2])
FiledCreations == {FiledBody(HelloWorld, filing) : filing \in Filings}
FiledChanges   == {FiledBody(UndefinedText, filing) : filing \in Filings}

NextTaxonomy ==
    \/ /\ nextPostId <= MaxAuthored
       /\ \E body \in FiledCreations : PostsCreate(BobToken, body, AiHello, "ai-failed")
    \/ \E id \in PostIds, body \in FiledChanges :
           PostsUpdate(BobToken, id, body, AiHello, "ai-failed")
    \/ \E id \in PostIds, force \in BOOLEAN : PostsDelete(EdToken, id, force)

SpecTaxonomy == InitTaxonomy /\ [][NextTaxonomy]_vars

(***************************************************************************)
(* The blogroll: members add, move and remove links, an editor removes a   *)
(* link category.                                                          *)
(***************************************************************************)
LinkBody(name, url, category) == [name |-> name, url |-> url, category_id |-> category]
LinkCreations ==
    {LinkBody("n", url, category) : url \in {"u", Undefined}, category \in {NoId, 1, 2, 3}}
LinkChanges == {LinkBody(Undefined, "v", category) : category \in {NoId, 1, 2, 3}}

NextLinks ==
    \/ /\ nextLinkId <= MaxLinks
       /\ \E body \in LinkCreations : LinksCreate(SueToken, body)
    \/ \E id \in 1..(MaxLinks + 1), body \in LinkChanges : LinksUpdate(SueToken, id, body)
    \/ \E id \in 1..(MaxLinks + 1) : LinksDelete(SueToken, id)
    \/ \E id \in {2, 3} : LinkCategoriesDelete(EdToken, id)

SpecLinks == InitStaffed /\ [][NextLinks]_vars

(***************************************************************************)
(* The default category and the default link category, with every bearer   *)
(* asking to delete every term while posts and links are filed.            *)
(***************************************************************************)
FiledOrNot == {FiledBody(HelloWorld, filing) : filing \in {<<NoList, NoList>>, <<<<2>>, NoList>>}}
LinkedOrNot == {LinkBody("n", "u", category) : category \in {NoId, 2}}

NextDefaults ==
    \/ /\ nextPostId <= MaxAuthored
       /\ \E body \in FiledOrNot : PostsCreate(BobToken, body, AiHello, "ai-failed")
    \/ /\ nextLinkId <= MaxLinks
       /\ \E body \in LinkedOrNot : LinksCreate(BobToken, body)
    \/ \E token \in Bearers, id \in {1, 2, 3}, force \in BOOLEAN :
           CategoriesDelete(token, id, force)
    \/ \E token \in Bearers, id \in {1, 2, 3} : LinkCategoriesDelete(token, id)

SpecDefaults == InitStaffed /\ [][NextDefaults]_vars

(***************************************************************************)
(* Webhooks: the administrator points the hook at an endpoint and edits    *)
(* the allow-list while an editor writes, publishes and deletes posts.     *)
(***************************************************************************)
PublishedAndUpdated == <<"post.published", ",", " ", "post.updated">>
HookCreations == {StatusBody(status) : status \in {Undefined, "publish", "pending"}}
HookChanges   == {StatusChange(status) : status \in {Undefined, "publish", "draft"}}

NextHooks ==
    \/ \E url \in {"", "https://hook"} :
           SettingsPut(AnnToken, ("webhook_url" :> url), TRUE)
    \/ \E events \in {<<>>, PublishedAndUpdated} :
           SettingsPut(AnnToken, ("webhook_events" :> events), TRUE)
    \/ /\ nextPostId <= MaxAuthored
       /\ \E body \in HookCreations : PostsCreate(EdToken, body, AiHello, "ai-failed")
    \/ \E id \in PostIds, body \in HookChanges :
           PostsUpdate(EdToken, id, body, AiHello, "ai-failed")
    \/ \E id \in PostIds, force \in BOOLEAN : PostsDelete(EdToken, id, force)

SpecHooks == InitStaffed /\ [][NextHooks]_vars

(***************************************************************************)
(* Deliveries that fail: the hook is configured with a secret, and the     *)
(* endpoint, the network, the store and the signing key misbehave while    *)
(* posts and comments are written.                                         *)
(***************************************************************************)
HookedSettings ==
    [k \in DOMAIN SeededSettings |->
        CASE k = "webhook_url" -> "https://hook"
          [] k = "webhook_secret" -> "k2"
          [] OTHER -> SeededSettings[k]]

\* the blog after its administrator has configured the webhook
InitHooked ==
    /\ users = Staff
    /\ nextUserId = 6
    /\ tokens = {generateToken(i, Staff[i]) : i \in DOMAIN Staff}
    /\ siteSettings = HookedSettings
    /\ settingsCache = NoCache
    /\ cacheTimestamp = 0
    /\ now = CACHE_TTL
    /\ posts = [p \in {1} |->
                  [title |-> "Hello World", content |-> "", excerpt |-> "",
                   slug |-> "hello-world", status |-> "publish", post_type |-> "post",
                   author_id |-> 3, published_at |-> CACHE_TTL, created_at |-> CACHE_TTL,
                   comment_count |-> 0, view_count |-> 0]]
    /\ nextPostId = 2
    /\ postCategories = {}
    /\ postTags = {}
    /\ catCount = [c \in {1, 2} |-> 0]
    /\ tagCount = [t \in {1} |-> 0]
    /\ comments = Empty
    /\ nextCommentId = 1
    /\ req = NoRequest
    /\ resp = Response(0, "none", <<>>)
    /\ sent = <<>>
    /\ linkRows = Empty
    /\ nextLinkId = 1
    /\ linkCatCount = [c \in {1, 2} |-> 0]
    /\ inflight = NoneInFlight
    /\ network = "ok"
    /\ NoMedia

DraftOrPublished == {StatusBody(Undefined), PublishedBody}
PublishChange    == StatusChange("publish")

NextDelivery ==
    \/ \E outcome \in Deliveries : NetworkTurns(outcome)
    \/ /\ nextPostId <= MaxAuthored
       /\ \E body \in DraftOrPublished : PostsCreate(EdToken, body, AiHello, "ai-failed")
    \/ \E id \in PostIds : PostsUpdate(EdToken, id, PublishChange, AiHello, "ai-failed")
    \/ \E id \in PostIds : PostsDelete(EdToken, id, TRUE)
    \/ CommentsCreate(NoToken, GuestComment, "10.0.0.7")
    \/ \E id \in 1..MaxComments, force \in BOOLEAN : CommentsDelete(EdToken, id, force)

SpecDelivery == InitHooked /\ [][NextDelivery]_vars

(***************************************************************************)
(* The settings cache: two requests look the settings up while the         *)
(* administrator renames the site, the clock advances and the store fails  *)
(* and recovers.                                                           *)
(***************************************************************************)
TitleBodies == {("site_title" :> "Blog"), ("site_title" :> "News")}

NextCache ==
    \/ \E c \in Clients : GetSiteSettingsBegin(c)
    \/ \E c \in Clients : GetSiteSettingsEnd(c)
    \/ \E entries \in TitleBodies, single \in BOOLEAN : SettingsPut(AnnToken, entries, single)
    \/ \E outcome \in {"ok", "lookup-error"} : NetworkTurns(outcome)
    \/ Tick

SpecCache == InitStaffed /\ [][NextCache]_vars

(***************************************************************************)
(* Publishing over time: an editor writes posts and pages, publishes them, *)
(* takes them back to draft, publishes them again and trashes them while   *)
(* the clock advances.                                                     *)
(***************************************************************************)
StatusChanges == {StatusChange("publish"), StatusChange("draft")}
PageBodies ==
    {HelloBody, PostBody(HelloWorld, Undefined, HelloSlug, "publish", NoList, NoList)}

NextLifecycle ==
    \/ /\ nextPostId <= MaxAuthored
       /\ \E body \in DraftOrPublished : PostsCreate(EdToken, body, AiHello, "ai-failed")
    \/ \E id \in PostIds, body \in StatusChanges :
           PostsUpdate(EdToken, id, body, AiHello, "ai-failed")
    \/ \E id \in PostIds : PostsDelete(EdToken, id, FALSE)
    \/ /\ nextPostId <= MaxAuthored
       /\ \E body \in PageBodies : PagesCreate(EdToken, body)
    \/ \E id \in PostIds, body \in StatusChanges : PagesUpdateCheck(1, EdToken, id, body)
    \/ PagesUpdateWrite(1)
    \/ \E id \in PostIds : PagesDelete(EdToken, id, FALSE)
    \/ Tick

SpecLifecycle == InitStaffed /\ [][NextLifecycle]_vars

(***************************************************************************)
(* Deleting: the blog holds a published post with one comment and a        *)
(* published page; an author writes moments and uploads files, and the     *)
(* administrator sends DELETE requests with and without force=true.        *)
(***************************************************************************)
InitJournal ==
    /\ users = Staff
    /\ nextUserId = 6
    /\ tokens = {generateToken(i, Staff[i]) : i \in DOMAIN Staff}
    /\ siteSettings = SeededSettings
    /\ settingsCache = [present |-> TRUE, map |-> MergedSettings]
    /\ cacheTimestamp = CACHE_TTL
    /\ now = CACHE_TTL
    /\ posts = [p \in {1, 2} |->
                  [title |-> IF p = 1 THEN "Hello World" ELSE "About", content |-> "",
                   excerpt |-> "", slug |-> IF p = 1 THEN "hello-world" ELSE "about",
                   status |-> "publish", post_type |-> IF p = 1 THEN "post" ELSE "page",
                   author_id |-> 3, published_at |-> CACHE_TTL, created_at |-> CACHE_TTL,
                   comment_count |-> IF p = 1 THEN 1 ELSE 0, view_count |-> 0]]
    /\ nextPostId = 3
    /\ postCategories = {}
    /\ postTags = {}
    /\ catCount = [c \in {1, 2} |-> 0]
    /\ tagCount = [t \in {1} |-> 0]
    /\ comments = [k \in {1} |->
                     [post_id |-> 1, parent_id |-> 0, author_name |-> "guest",
                      author_email |-> "guest@x.io", author_ip |-> "10.0.0.7",
                      content |-> "hi", status |-> "approved", user_id |-> 0]]
    /\ nextCommentId = 2
    /\ req = NoRequest
    /\ resp = Response(0, "none", <<>>)
    /\ sent = <<>>
    /\ linkRows = Empty
    /\ nextLinkId = 1
    /\ linkCatCount = [c \in {1, 2} |-> 0]
    /\ inflight = NoneInFlight
    /\ network = "ok"
    /\ NoMedia

MomentBodies  == {MomentBody(<<"h", "i">>, Undefined), MomentBody(<<" ">>, Undefined),
                  MomentBody(<<"h", "i">>, "private")}
Uploads       == {Undefined, "image/png", "text/html"}
MomentIds     == 1..MaxMoments
MediaIds      == 1..MaxMedia

NextTrash ==
    \/ \E body \in MomentBodies : MomentsCreate(BobToken, body)
    \/ \E file \in Uploads, put \in BOOLEAN : MediaCreate(BobToken, file, put)
    \/ \E id \in PostIds, force \in BOOLEAN : PostsDelete(AnnToken, id, force)
    \/ \E id \in PostIds, force \in BOOLEAN : PagesDelete(AnnToken, id, force)
    \/ \E id \in 1..MaxComments, force \in BOOLEAN : CommentsDelete(AnnToken, id, force)
    \/ \E id \in MomentIds, force \in BOOLEAN : MomentsDelete(AnnToken, id, force)
    \/ \E id \in MediaIds, force \in BOOLEAN, removed \in BOOLEAN :
           MediaDelete(AnnToken, id, force, removed)
    \/ CategoriesDelete(AnnToken, 2, FALSE)
    \/ TagsDelete(AnnToken, 1, FALSE)
    \/ UsersDelete(AnnToken, 5, FALSE, 0)

SpecTrash == InitJournal /\ [][NextTrash]_vars

(***************************************************************************)
(* Partial updates: an author files a post and sends PUT requests that     *)
(* name one or two fields each.                                            *)
(***************************************************************************)
NoFields      == PostBody(UndefinedText, Undefined, UndefinedText, Undefined, NoList, NoList)
TitleOnly     == PostBody(<<"N", "e", "w">>, Undefined, UndefinedText, Undefined, NoList, NoList)
ContentOnly   == PostBody(UndefinedText, "Body text.", UndefinedText, Undefined, NoList, NoList)
ExcerptOnly   == WithExcerpt(NoFields, "By hand.")
ContentAndExcerpt == WithExcerpt(ContentOnly, "By hand.")
SlugOnly      == PostBody(UndefinedText, Undefined, Hello1Slug, Undefined, NoList, NoList)
DraftOnly     == PostBody(UndefinedText, Undefined, UndefinedText, "draft", NoList, NoList)
CategoriesOnly == PostBody(UndefinedText, Undefined, UndefinedText, Undefined, <<2>>, NoList)
TagsOnly      == PostBody(UndefinedText, Undefined, UndefinedText, Undefined, NoList, <<1>>)
FiledPost     == PostBody(HelloWorld, "First text.", UndefinedText, Undefined, <<1>>, <<1>>)
PartialChanges == {NoFields, TitleOnly, ContentOnly, ExcerptOnly, ContentAndExcerpt, SlugOnly,
                   DraftOnly, PublishChange, CategoriesOnly, TagsOnly}

NextPartial ==
    \/ /\ nextPostId <= MaxFiled
       /\ PostsCreate(BobToken, FiledPost, AiHello, "ai-failed")
    \/ \E id \in 1..MaxFiled, body \in PartialChanges, aiExcerpt \in AiExcerpts :
           PostsUpdate(BobToken, id, body, AiHello, aiExcerpt)

SpecPartial == InitStaffed /\ [][NextPartial]_vars

(***************************************************************************)
(* Pages: an author, a contributor and a subscriber create, publish,       *)
(* update and delete pages.                                                *)
(***************************************************************************)
PageWriters == {BobToken, CyToken, SueToken}

NextPages ==
    \/ /\ nextPostId <= MaxAuthored
       /\ \E token \in PageWriters, body \in PageBodies : PagesCreate(token, body)
    \/ \E token \in PageWriters, id \in PostIds, body \in StatusChanges :
           PagesUpdateCheck(1, token, id, body)
    \/ PagesUpdateWrite(1)
    \/ \E token \in PageWriters, id \in PostIds, force \in BOOLEAN :
           PagesDelete(token, id, force)

SpecPages == InitStaffed /\ [][NextPages]_vars

(***************************************************************************)
(* Enrolment: visitors register at the same time on a new deployment, the  *)
(* administrator creates accounts, accounts log in and delete one another. *)
(***************************************************************************)
NextEnroll ==
    \/ \E c \in Clients, body \in RegisterBodies : UsersRegisterCount(c, body)
    \/ \E c \in Clients : UsersRegisterInsert(c)
    \/ \E login \in {"bob", "cy@x.io"} : UsersLogin(login, TRUE)
    \/ /\ nextUserId <= MaxUsers
       /\ \E token \in Bearers, body \in CreateBodies : UsersCreate(token, body)
    \/ \E token \in Bearers, id \in UserIds : UsersDelete(token, id, TRUE, 0)

SpecEnroll == Init /\ [][NextEnroll]_vars

(***************************************************************************)
(* Revocation: every account of the staffed site holds a token; the        *)
(* administrator deactivates, deletes or demotes the editor and the        *)
(* author, who go on sending requests with the tokens they hold.           *)
(***************************************************************************)
Demotion  == [email |-> Undefined, role |-> "subscriber"]
Revoked   == {EdToken, BobToken}

NextRevoke ==
    \/ \E id \in {2, 3}, force \in BOOLEAN : UsersDelete(AnnToken, id, force, 0)
    \/ \E id \in {2, 3} : UsersUpdate(AnnToken, id, Demotion)
    \/ /\ nextPostId <= MaxAuthored
       /\ \E token \in Revoked : PostsCreate(token, PublishedBody, AiHello, "ai-failed")
    \/ \E token \in Revoked, id \in PostIds : PostsDelete(token, id, FALSE)
    \/ \E token \in Revoked : CategoriesDelete(token, 2, TRUE)

SpecRevoke == InitStaffed /\ [][NextRevoke]_vars

(***************************************************************************)
(* Administration: the administrator changes roles, his own included, and  *)
(* the administrator and the editor deactivate and delete accounts.        *)
(***************************************************************************)
Promotion   == [email |-> Undefined, role |-> "administrator"]
RoleChanges == {Demotion, Promotion}
Managers    == {AnnToken, EdToken}

NextAdmins ==
    \/ \E token \in Managers, id \in 1..3, body \in RoleChanges : UsersUpdate(token, id, body)
    \/ \E token \in Managers, id \in 1..3, force \in BOOLEAN :
           UsersDelete(token, id, force, 0)

SpecAdmins == InitStaffed /\ [][NextAdmins]_vars

(***************************************************************************)
(* Moderation: visitors comment on the published post while the editor's   *)
(* DELETE requests, with and without force=true, overlap.                  *)
(***************************************************************************)
NextModerate ==
    \/ CommentsCreate(NoToken, GuestComment, "10.0.0.7")
    \/ \E c \in Clients, id \in 1..MaxComments, force \in BOOLEAN :
           CommentsDeleteLookup(c, EdToken, id, force)
    \/ \E c \in Clients : CommentsDeleteWrite(c)

SpecModerate == InitJournal /\ [][NextModerate]_vars

(***************************************************************************)
(* Listing tags: an author files posts under tags and anyone pages through *)
(* the tags, filtered by name or by post.                                  *)
(***************************************************************************)
TagSearches == {UndefinedText, <<"n", "e">>, <<"g">>}

NextListing ==
    \/ /\ nextPostId <= MaxAuthored
       /\ \E body \in FiledCreations : PostsCreate(BobToken, body, AiHello, "ai-failed")
    \/ \E search \in TagSearches, post \in 0..MaxAuthored, page \in 1..3, perPage \in 1..2 :
           TagsList(search, post, page, perPage)

SpecListing == InitTaxonomy /\ [][NextListing]_vars

(***************************************************************************)
(* Properties.                                                             *)
(***************************************************************************)
\* the row a step inserts into users
InsertedUser == users'[nextUserId]
UserInserted ==
    /\ nextUserId' = nextUserId + 1
    /\ DOMAIN users' = DOMAIN users \cup {nextUserId}

\* C1: a register request against a users table with zero rows creates the user
\* with role administrator; against a table with at least one row every user it
\* creates has role subscriber, whatever role the body asks for; it creates a
\* row exactly when it answers 201.
C1_RegisterStep ==
    req'.op = "users.register" =>
        /\ (resp'.status = 201) = UserInserted
        /\ (resp'.status # 201) => UNCHANGED dbUsers
        /\ (DOMAIN users = {} /\ Undefined \notin
                {req'.body.username, req'.body.email, req'.body.password})
               => resp'.status = 201
        /\ (resp'.status = 201 /\ DOMAIN users = {})
               => /\ InsertedUser.role = "administrator"
                  /\ resp'.body.user.role = "administrator"
        /\ (resp'.status = 201 /\ DOMAIN users # {})
               => /\ InsertedUser.role = "subscriber"
                  /\ resp'.body.user.role = "subscriber"
C1_FirstUserBootstrap == [][C1_RegisterStep]_vars

\* a second registrant whose body asks for administrator was created as subscriber,
\* while the first registrant's administrator row exists
C1_Witness ==
    /\ req.op = "users.register"
    /\ resp.status = 201
    /\ req.body.role = "administrator"
    /\ resp.body.user.role = "subscriber"
    /\ \E i \in DOMAIN users : users[i].role = "administrator" /\ i < resp.body.user.id

\* the table was emptied and a later registrant became administrator again
C1_WitnessEmptied ==
    /\ req.op = "users.register"
    /\ resp.status = 201
    /\ resp.body.user.role = "administrator"
    /\ resp.body.user.id > 1

(***************************************************************************)
(* C2.  A caller whose role is contributor or subscriber never causes a    *)
(* post to reach status publish: POST /posts with status=publish is        *)
(* answered 403 and stores nothing, PUT /posts/:id asking for publish on a *)
(* post that is not published is answered 403 and stores nothing, and the  *)
(* same create payload with status=draft is answered 201 and stored.       *)
(***************************************************************************)
PublishedPosts(table) ==
    {p \in DOMAIN table : table[p].post_type = "post" /\ table[p].status = "publish"}

C2_Caller == req'.token.kind = "jwt" /\ req'.token.role \in {"contributor", "subscriber"}

C2_PublishStep ==
    C2_Caller =>
        /\ PublishedPosts(posts') \subseteq PublishedPosts(posts)
        /\ (req'.op = "posts.create" /\ req'.body.status = "publish")
              => (resp'.status = 403 /\ UNCHANGED stored)
        /\ (/\ req'.op = "posts.update" /\ req'.body.status = "publish"
            /\ req'.id \in DOMAIN posts
            /\ posts[req'.id].post_type = "post"
            /\ posts[req'.id].status # "publish")
              => (resp'.status = 403 /\ UNCHANGED stored)
        /\ (/\ req'.op = "posts.create" /\ req'.body.status = "draft"
            /\ req'.body.title = HelloWorld
            /\ req'.token.userId \in DOMAIN users)
              => /\ resp'.status = 201
                 /\ DOMAIN posts' = DOMAIN posts \cup {nextPostId}
                 /\ posts'[nextPostId].status = "draft"
                 /\ posts'[nextPostId].author_id = req'.token.userId

C3_EditStep(anonymousStatus) ==
    (/\ req'.op = "posts.update"
     /\ req'.id \in DOMAIN posts
     /\ posts[req'.id].post_type = "post")
    => LET caller == req'.token
           post == posts[req'.id]
           refused == resp'.code = "rest_cannot_edit"
       IN  /\ refused => (resp'.status = 403 /\ UNCHANGED stored)
           /\ (caller.kind = "jwt" /\ caller.role \in {"administrator", "editor"})
                 => ~refused
           /\ (caller.kind = "jwt" /\ caller.role \in {"author", "contributor"})
                 => (refused <=> post.author_id # caller.userId)
           /\ (/\ caller.kind = "jwt"
               /\ caller.role \notin {"administrator", "editor", "author", "contributor"})
                 => refused
           /\ caller.kind # "jwt"
                 => (resp'.status = anonymousStatus /\ UNCHANGED stored)

\* C3 as amended: a request without an identity is answered 401 by authMiddleware
C3_EditOwnership == [][C3_EditStep(401)]_vars

\* C3 as written: a request without an identity is answered 403
C3_Original == [][C3_EditStep(403)]_vars

\* an author has tried to rewrite a categorised post of somebody else
C3_Witness ==
    /\ req.op = "posts.update"
    /\ req.token.role = "author"
    /\ req.id \in DOMAIN posts
    /\ posts[req.id].author_id # req.token.userId
    /\ <<req.id, 1>> \in postCategories
    /\ resp.code = "rest_cannot_edit"

(***************************************************************************)
(* C4.  DELETE /posts/:id: an administrator or editor may delete any post; *)
(* an author or contributor may delete a post exactly when ownerMayDelete  *)
(* and the post is theirs; every other role is answered 403; a refused     *)
(* request leaves storage as it was.                                       *)
(***************************************************************************)
C4_DeleteStep(ownerMayDelete) ==
    (/\ req'.op = "posts.delete"
     /\ req'.id \in DOMAIN posts
     /\ posts[req'.id].post_type = "post"
     /\ req'.token.kind = "jwt")
    => LET caller == req'.token
           post == posts[req'.id]
           refused == resp'.code = "rest_cannot_delete"
       IN  /\ refused => (resp'.status = 403 /\ UNCHANGED stored)
           /\ caller.role \in {"administrator", "editor"} => ~refused
           /\ caller.role \in {"author", "contributor"}
                 => (refused <=> ~(ownerMayDelete /\ post.author_id = caller.userId))
           /\ caller.role \notin {"administrator", "editor", "author", "contributor"}
                 => refused

C5_Allowed(op) ==
    IF op = "categories.delete" THEN {"administrator", "editor"} ELSE {"administrator"}

C5_GuardedOps ==
    {"users.create", "users.delete", "settings.admin", "settings.put", "settings.putKey",
     "categories.delete"}

C5_Untouched == UNCHANGED <<stored, tokens, settingsCache, cacheTimestamp>>

C5_GuardStep ==
    req'.op \in C5_GuardedOps
    => LET caller == req'.token
           stopped == resp'.code \in {"rest_not_logged_in", "rest_invalid_token",
                                      "rest_forbidden"}
       IN  /\ caller.kind # "jwt" => (resp'.status = 401 /\ C5_Untouched)
           /\ (caller.kind = "jwt" /\ caller.role \notin C5_Allowed(req'.op))
                 => (resp'.status = 403 /\ resp'.code = "rest_forbidden" /\ C5_Untouched)
           /\ (caller.kind = "jwt" /\ caller.role \in C5_Allowed(req'.op)) => ~stopped

C5_RoleGuard == [][C5_GuardStep]_vars

\* an editor was let through to categories.delete, which removed category 2
C5_Witness ==
    /\ req.op = "categories.delete"
    /\ req.token.role = "editor"
    /\ resp.status = 200
    /\ 2 \notin DOMAIN catCount

(***************************************************************************)
(* C6.  GET /users and GET /users/:id include a user's email exactly when  *)
(* the requester is authenticated as administrator or editor, or (for      *)
(* GET /users/:id) is the user being viewed.                               *)
(***************************************************************************)
C6_Staff(caller) == caller.kind = "jwt" /\ caller.role \in {"administrator", "editor"}

C6_EmailVisibility ==
    /\ (req.op = "users.list" /\ resp.status = 200)
          => \A u \in resp.body : ("email" \in DOMAIN u) <=> C6_Staff(req.token)
    /\ (req.op = "users.get" /\ resp.status = 200)
          => (("email" \in DOMAIN resp.body)
                 <=> (C6_Staff(req.token)
                        \/ (req.token.kind = "jwt" /\ req.token.userId = req.id)))

(***************************************************************************)
(* C8.  A requester who is neither administrator or editor nor the post's  *)
(* author never receives a post whose status is not publish: GET /posts    *)
(* does not list it whatever the status parameter, and GET /posts/:id      *)
(* answers as for an id that does not exist.                               *)
(***************************************************************************)
C8_MaySee(caller, author) ==
    /\ caller.kind = "jwt"
    /\ (caller.role \in {"administrator", "editor"} \/ caller.userId = author)

C8_DraftsHidden ==
    /\ req.op = "posts.list"
          => \A r \in resp.body : r.status = "publish" \/ C8_MaySee(req.token, r.author)
    /\ (/\ req.op = "posts.get"
        /\ req.id \in DOMAIN posts
        /\ posts[req.id].status # "publish"
        /\ ~C8_MaySee(req.token, posts[req.id].author_id))
          => resp = createWPError("rest_post_invalid_id", 404)

(***************************************************************************)
(* C9.  No response to a request that lacks an administrator identity      *)
(* contains the stored value of webhook_secret or webhook_url, on          *)
(* GET /settings and on GET /settings/:key with any key.                   *)
(***************************************************************************)
C9_Administrator(caller) == caller.kind = "jwt" /\ caller.role = "administrator"

C9_SecretsHidden ==
    ~C9_Administrator(req.token)
    => /\ (req.op = "settings.list" /\ resp.status = 200)
             => DOMAIN resp.body \cap sensitiveFields = {}
       /\ (req.op = "settings.admin") => resp.status \in {401, 403}
       /\ (req.op = "settings.get" /\ resp.status = 200 /\ req.key \in sensitiveFields)
             => (siteSettings[req.key] = "" \/ resp.body.value # siteSettings[req.key])

(***************************************************************************)
(* C7.  On GET /comments, GET /comments/:id and POST /comments the fields  *)
(* author_email and author_ip are present only for an administrator or     *)
(* editor, and then equal the stored values; for any other requester the   *)
(* response is the public view of the stored comment, which has neither    *)
(* field, so two such responses for the same stored comment are identical. *)
(***************************************************************************)
C7_Staff(caller) == caller.kind = "jwt" /\ caller.role \in {"administrator", "editor"}

C7_Public(id, comment) ==
    [id |-> id, post |-> comment.post_id, parent |-> comment.parent_id,
     author |-> comment.user_id, author_name |-> comment.author_name,
     content |-> comment.content, status |-> comment.status,
     avatar |-> <<"md5", LowerTrim(comment.author_email)>>]

C7_Shown(caller, body) ==
    /\ body.id \in DOMAIN comments
    /\ ({"author_email", "author_ip"} \cap DOMAIN body # {}) => C7_Staff(caller)
    /\ IF {"author_email", "author_ip"} \subseteq DOMAIN body
       THEN /\ body.author_email = comments[body.id].author_email
            /\ body.author_ip = comments[body.id].author_ip
       ELSE body = C7_Public(body.id, comments[body.id])

C10_Candidate == RequestedSlug(req'.body.slug, req'.body.title, req'.ai, "")
C10_Numbered(b, k) == b \o "-" \o ToString(k)

C10_SlugStep ==
    (req'.op = "posts.create" /\ resp'.status = 201)
    => LET b == C10_Candidate
           stored_slug == posts'[nextPostId].slug
           rows == Cardinality(DOMAIN posts)
       IN  /\ EnsureUniqueSlug(b).lookups <= rows + 1
           /\ IF ~SlugExists(b) THEN stored_slug = b
              ELSE \E k \in 1..rows :
                      /\ stored_slug = C10_Numbered(b, k)
                      /\ ~SlugExists(C10_Numbered(b, k))
                      /\ \A j \in 1..(k - 1) : SlugExists(C10_Numbered(b, j))

C10_SlugUniqueness == [][C10_SlugStep]_vars

\* three posts titled "Hello World", none with a slug in its body, are stored
\* as hello-world, hello-world-1 and hello-world-2
C10_Witness ==
    /\ DOMAIN posts = {1, 2, 3}
    /\ \A p \in DOMAIN posts : posts[p].title = "Hello World" /\ posts[p].post_type = "post"
    /\ posts[1].slug = "hello-world"
    /\ posts[2].slug = "hello-world-1"
    /\ posts[3].slug = "hello-world-2"
    /\ req.op = "posts.create"
    /\ req.body.slug = UndefinedText

(***************************************************************************)
(* C11: in every reachable state no two rows of the posts table (posts and *)
(* pages together) share a slug, whatever the interleaving of the steps of *)
(* POST /posts, POST /pages, PUT /posts/:id and PUT /pages/:id; a request  *)
(* whose INSERT or UPDATE carries a slug that another row holds, also when *)
(* its own lookup found the slug free, ends with an error response and     *)
(* leaves every table as it was, and the one that finds it free writes it. *)
(***************************************************************************)
C11_NoSharedSlug ==
    \A p, q \in DOMAIN posts : p # q => posts[p].slug # posts[q].slug

\* the step of client c that runs the INSERT or UPDATE of its request
C11_Writes(c) ==
    /\ inflight[c].pc \in {"insert", "update"}
    /\ inflight'[c] = Idle

C11_Target(c) ==
    IF inflight[c].pc = "insert" THEN nextPostId ELSE inflight[c].request.id

C11_WriteStep ==
    /\ \A c \in Clients :
          C11_Writes(c) /\ inflight[c].postSlug # Undefined =>
              IF SlugTaken(inflight[c].postSlug, C11_Target(c))
              THEN resp'.status >= 400 /\ UNCHANGED stored
              ELSE C11_Target(c) \in DOMAIN posts \/ inflight[c].pc = "insert" =>
                       /\ resp'.status \in {200, 201}
                       /\ posts'[C11_Target(c)].slug = inflight[c].postSlug
    /\ (inflight' = inflight /\ req'.op = "posts.update" /\ req'.id \in DOMAIN posts
        /\ SlugTaken(Join(trim(req'.body.slug)), req'.id)) =>
           resp'.status >= 400 /\ UNCHANGED stored

C11_UniqueSlugs == []C11_NoSharedSlug /\ [][C11_WriteStep]_vars

\* a creation whose lookup found "hello" free lost the race: the other
\* request's row holds the slug, and this one ended with the error
C11_Witness ==
    /\ req.op \in {"posts.create", "pages.create"}
    /\ resp.status = 500
    /\ Cardinality({p \in DOMAIN posts : posts[p].slug = "hello"}) = 1
    /\ \A c \in Clients : inflight[c] = Idle

(***************************************************************************)
(* C12: a post created with categories [1,2] and then, with no request in  *)
(* between, updated with categories [2,3] leaves category 1's count one    *)
(* lower than after the create, category 2's count as it was and category  *)
(* 3's count one higher; the same holds for tags.                          *)
(***************************************************************************)
\* the step is the update with `list` of the post the previous request created
\* with <<1, 2>> in the same field
C12_Refiled(created, updated) ==
    /\ req.op = "posts.create"
    /\ resp.status = 201
    /\ created = <<1, 2>>
    /\ req'.op = "posts.update"
    /\ req'.id = resp.body.id
    /\ updated = <<2, 3>>
    /\ resp'.status = 200

C12_Shifted(before, after) ==
    after = [before EXCEPT ![1] = @ - 1, ![2] = @, ![3] = @ + 1]

C12_RefileStep ==
    /\ C12_Refiled(req.body.categories, req'.body.categories) =>
           C12_Shifted(catCount, catCount')
    /\ C12_Refiled(req.body.tags, req'.body.tags) => C12_Shifted(tagCount, tagCount')

C12_CounterShift == [][C12_RefileStep]_vars

\* the only post ever created has been refiled from [1,2] to [2,3], categories
\* and tags alike
C12_Witness ==
    /\ req.op = "posts.update"
    /\ resp.status = 200
    /\ req.body.categories = <<2, 3>>
    /\ req.body.tags = <<2, 3>>
    /\ nextPostId = 2
    /\ catCount = (1 :> 0) @@ (2 :> 1) @@ (3 :> 1)
    /\ tagCount = (1 :> 0) @@ (2 :> 1) @@ (3 :> 1)

(***************************************************************************)
(* C13: after any sequence of POST /posts, PUT /posts/:id, trash DELETE    *)
(* and force DELETE /posts/:id requests handled one at a time, with any    *)
(* category / tag id lists in the bodies, every category's count equals    *)
(* the number of post_categories rows that reference it and every tag's    *)
(* count the number of post_tags rows that reference it.                   *)
(***************************************************************************)
C13_Attached(term, links) == Cardinality({l \in links : l[2] = term})

C13_CountsMatchLinks ==
    /\ \A c \in DOMAIN catCount : catCount[c] = C13_Attached(c, postCategories)
    /\ \A t \in DOMAIN tagCount : tagCount[t] = C13_Attached(t, postTags)

(***************************************************************************)
(* C14: after any sequence of link create, link update (category changes   *)
(* included), link delete and link-category delete requests handled one at *)
(* a time, every link category's count equals the number of links whose    *)
(* category_id is that category, the links created without a category_id   *)
(* (which get category 1) included.                                        *)
(***************************************************************************)
C14_Filed(category) ==
    Cardinality({l \in DOMAIN linkRows : linkRows[l].category_id = category})

C14_LinkCountsMatch ==
    \A k \in DOMAIN linkCatCount : linkCatCount[k] = C14_Filed(k)

(***************************************************************************)
(* C15: no request of any caller, administrators asking with force=true    *)
(* included, removes category 1 or link category 1: a DELETE that targets  *)
(* either is answered with an error and leaves every table as it was.      *)
(***************************************************************************)
C15_DefaultsPresent == 1 \in DOMAIN catCount /\ 1 \in DOMAIN linkCatCount

C15_DeleteStep ==
    (req'.op \in {"categories.delete", "linkCategories.delete"} /\ req'.id = 1) =>
        /\ resp'.status >= 400
        /\ UNCHANGED stored

C15_DefaultsProtected == []C15_DefaultsPresent /\ [][C15_DeleteStep]_vars

\* the administrator's forced DELETE of category 1 was refused, after category 2
\* (holding a post) and link category 2 were deleted
C15_Witness ==
    /\ req.op = "categories.delete"
    /\ req.id = 1
    /\ req.force
    /\ req.token = StaffToken(1)
    /\ resp = createWPError("rest_cannot_delete", 403)
    /\ DOMAIN catCount = {1}
    /\ DOMAIN linkCatCount = {1}
    /\ postCategories # {}
    /\ linkRows # Empty

(***************************************************************************)
(* C16: every successful post create or update triggers exactly one        *)
(* webhook event: a create with status publish triggers post.published     *)
(* only, a create with any other status post.created, an update that asks  *)
(* for status publish on a post whose stored status was not publish        *)
(* post.published, every other update post.updated; no request triggers    *)
(* both post.created and post.published.                                   *)
(***************************************************************************)
\* the hook is configured and the allow-list names every event
C16_Listening ==
    /\ Setting(getSiteSettings, "webhook_url") = "https://hook"
    /\ EventsSetting(getSiteSettings) = AllEvents

C16_Fired(event) ==
    IF C16_Listening THEN sent' = <<event>>
    ELSE Len(sent') <= 1 /\ \A i \in DOMAIN sent' : sent'[i] = event

C16_HookStep ==
    /\ (req'.op = "posts.create" /\ resp'.status = 201) =>
           C16_Fired(IF req'.body.status = "publish" THEN "post.published"
                     ELSE "post.created")
    /\ (req'.op = "posts.update" /\ resp'.status = 200) =>
           C16_Fired(IF req'.body.status = "publish" /\ posts[req'.id].status # "publish"
                     THEN "post.published" ELSE "post.updated")

C16_SingleEvent == [][C16_HookStep]_vars

\* a post created as "publish" while the hook listens to every event: one
\* delivery, post.published
C16_Witness ==
    /\ req.op = "posts.create"
    /\ req.body.status = "publish"
    /\ resp.status = 201
    /\ siteSettings["webhook_url"] = "https://hook"
    /\ siteSettings["webhook_events"] = AllEvents
    /\ sent = <<"post.published">>

(***************************************************************************)
(* C17: sendWebhook makes an outbound delivery only if the webhook_url     *)
(* setting is non-empty and the event name is an element of the comma-     *)
(* separated webhook_events setting; when webhook_events is empty no event *)
(* is delivered, even with a URL configured.                               *)
(***************************************************************************)
\* the event is one of the pieces of the list
C17_Listed(event, pieces) == \E i \in DOMAIN pieces : pieces[i] = event

C17_GateStep ==
    /\ sent' # <<>> =>
           /\ Setting(getSiteSettings, "webhook_url") # ""
           /\ \A i \in DOMAIN sent' : C17_Listed(sent'[i], EventsSetting(getSiteSettings))
    /\ EventsSetting(getSiteSettings) = <<>> => sent' = <<>>

C17_DeliveryGate == [][C17_GateStep]_vars

\* a post was created while the URL was configured and the allow-list empty:
\* nothing was delivered
C17_Witness ==
    /\ req.op = "posts.create"
    /\ resp.status = 201
    /\ siteSettings["webhook_url"] = "https://hook"
    /\ siteSettings["webhook_events"] = <<>>
    /\ sent = <<>>

(***************************************************************************)
(* C18: for every mutating request that triggers a webhook, the response   *)
(* and the stored state are the same whether the delivery succeeds,        *)
(* returns a non-2xx status or raises a network error, and likewise when   *)
(* the settings lookup or the signing inside sendWebhook fails: no error   *)
(* of sendWebhook reaches the handler, so a request that has written its   *)
(* rows is answered with its success response.                             *)
(***************************************************************************)
C18_Triggering ==
    {"posts.create", "posts.update", "posts.delete", "comments.create", "comments.delete"}

C18_DeliveryStep ==
    (req'.op \in C18_Triggering /\ stored' # stored) =>
        /\ resp'.status \in {200, 201}
        /\ resp'.body.id \in DOMAIN posts \cup DOMAIN posts' \cup DOMAIN comments
                             \cup DOMAIN comments'

C18_FailuresSwallowed == [][C18_DeliveryStep]_vars

\* with the hook listening and a secret set, a comment was stored and answered
\* with 201 although nothing was delivered: the signing or the lookup failed
C18_Witness ==
    /\ req.op = "comments.create"
    /\ resp.status = 201
    /\ resp.body.id \in DOMAIN comments
    /\ sent = <<>>
    /\ network \in {"sign-error", "lookup-error"}

(***************************************************************************)
(* C19: getSiteSettings returns the cached map without querying the store  *)
(* whenever a cached map is present and less than 60000 ms have passed     *)
(* since the start of the call that populated it; when the cache is absent *)
(* or its age is at least 60000 ms it queries the store; a query that      *)
(* answers is merged over the hardcoded defaults, so site_title, site_url  *)
(* and admin_email are keys of the result, and that map is cached and      *)
(* returned; a query that throws returns the defaults and leaves the cache *)
(* as it was.                                                              *)
(***************************************************************************)
C19_Usable == settingsCache.present /\ now - cacheTimestamp < 60000

\* client c's call returned in the step it started in
C19_Returns(c) ==
    /\ inflight[c] = Idle
    /\ inflight' = inflight
    /\ req'.op = "getSiteSettings"
    /\ req'.client = c
    /\ <<req', resp'>> # <<req, resp>>

\* client c's call sent the query
C19_Queries(c) == inflight[c] = Idle /\ inflight'[c].pc = "query"

\* the query of client c's call answered or threw
C19_Answered(c) == inflight[c].pc = "query" /\ inflight'[c] = Idle

C19_Cached(c) ==
    /\ {"site_title", "site_url", "admin_email"} \subseteq DOMAIN resp'.body
    /\ DOMAIN inflight[c].result \subseteq DOMAIN resp'.body
    /\ \A k \in DOMAIN inflight[c].result : resp'.body[k] = inflight[c].result[k]
    /\ \A k \in DOMAIN resp'.body \ DOMAIN inflight[c].result :
           resp'.body[k] = DefaultSettings[k]
    /\ settingsCache' = [present |-> TRUE, map |-> resp'.body]
    /\ cacheTimestamp' = inflight[c].now

C19_LookupStep ==
    \A c \in Clients :
        /\ C19_Returns(c) =>
               /\ C19_Usable
               /\ resp'.body = settingsCache.map
               /\ UNCHANGED <<settingsCache, cacheTimestamp>>
        /\ C19_Queries(c) => ~C19_Usable
        /\ C19_Answered(c) =>
               IF network = "lookup-error"
               THEN resp'.body = DefaultSettings /\ UNCHANGED <<settingsCache, cacheTimestamp>>
               ELSE C19_Cached(c)

C19_CacheRead == [][C19_LookupStep]_vars

\* C19 as it was stated: every query ends with the merged map cached and returned
C19_Original ==
    [][\A c \in Clients : C19_Answered(c) => C19_Cached(c)]_vars

\* a call found the cache one tick short of its expiry and returned the map of the
\* refresh; site_url, which has no row, is in it
C19_Witness ==
    /\ req.op = "getSiteSettings"
    /\ resp.code = "cached"
    /\ now - cacheTimestamp = TickMs
    /\ resp.body = settingsCache.map
    /\ "site_url" \in DOMAIN resp.body \ DOMAIN siteSettings

(***************************************************************************)
(* C20: after a settings write has returned, every getSiteSettings call    *)
(* that starts afterwards returns the written values, under any            *)
(* interleaving with other requests, including a cache refresh that        *)
(* queried the store before the write and stores its result after the      *)
(* write has cleared the cache.                                            *)
(***************************************************************************)
\* the rows in the store are the values written; a call that starts and returns in
\* this step, or whose query was sent after the last write, returns them
C20_ReturnsWritten ==
    \A k \in DOMAIN siteSettings : k \in DOMAIN resp'.body /\ resp'.body[k] = siteSettings[k]

C20_FreshStep ==
    \A c \in Clients :
        /\ C19_Returns(c) => C20_ReturnsWritten
        /\ (C19_Answered(c) /\ network # "lookup-error"
            /\ inflight[c].result = siteSettings) => C20_ReturnsWritten

C20_ReadsAfterWriteFresh == [][C20_FreshStep]_vars

(***************************************************************************)
(* C21: when the store query fails during a settings refresh,              *)
(* getSiteSettings returns the hardcoded default map and raises no error.  *)
(***************************************************************************)
C21_FailedStep ==
    \A c \in Clients :
        (C19_Answered(c) /\ network = "lookup-error") =>
            /\ req'.op = "getSiteSettings"
            /\ resp'.status = 200
            /\ DOMAIN resp'.body = {"site_title", "site_description", "site_url", "admin_email"}
            /\ resp'.body["site_title"] = "CFBlog"
            /\ resp'.body["site_url"] = "http://localhost:8787"
            /\ resp'.body["admin_email"] = "admin@example.com"

C21_DefaultsOnFailure == [][C21_FailedStep]_vars

\* a refresh whose query threw after the administrator renamed the site
C21_Witness ==
    /\ req.op = "getSiteSettings"
    /\ resp.code = "defaults"
    /\ network = "lookup-error"
    /\ siteSettings["site_title"] = "Blog"

(***************************************************************************)
(* C22: for every post and every page, across any sequence of create,      *)
(* update and trash operations, published_at is null until the entity's    *)
(* first transition to status publish, is set at that transition, and      *)
(* never changes afterwards.                                               *)
(***************************************************************************)
\* published_at of row id before the step; 0 is NULL
C22_Before(id) == IF id \in DOMAIN posts THEN posts[id].published_at ELSE 0

C22_RowStep(id) ==
    IF C22_Before(id) # 0
    THEN posts'[id].published_at = C22_Before(id)
    ELSE IF posts'[id].status = "publish"
         THEN posts'[id].published_at = now
         ELSE posts'[id].published_at = 0

C22_SetOnce == [][\A id \in DOMAIN posts' : C22_RowStep(id)]_vars

(***************************************************************************)
(* C23: for every combination of filter query parameters of the tags list, *)
(* X-WP-Total equals the number of stored rows matching the same filters   *)
(* as the returned list and X-WP-TotalPages equals ceil(total / per_page); *)
(* the Link header has a rel="prev" entry exactly when page > 1 and a      *)
(* rel="next" entry exactly when page < total pages.                       *)
(***************************************************************************)
\* the tags rows that pass every filter of the request
C23_Matching(request) ==
    {t \in DOMAIN tagCount :
        /\ request.search # UndefinedText => Like(TagNames[t], request.search)
        /\ request.post # 0 => <<request.post, t>> \in postTags}

C23_PaginationHeaders ==
    (req.op = "tags.list" /\ resp.status = 200) =>
        LET total == Cardinality(C23_Matching(req))
            h == resp.body.headers
        IN  /\ h.total = total
            /\ h.totalPages * req.per_page >= total
            /\ (h.totalPages - 1) * req.per_page < total \/ (total = 0 /\ h.totalPages = 0)
            /\ h.prev = (req.page > 1)
            /\ h.next = (req.page < h.totalPages)
            /\ \A i \in DOMAIN resp.body.items : resp.body.items[i] \in C23_Matching(req)

(***************************************************************************)
(* C24: an accepted DELETE without force=true on a post, page, moment or   *)
(* comment keeps the row and sets its status to trash; an accepted DELETE  *)
(* with force=true removes the row; DELETE without force=true on a         *)
(* category, tag or media item is rejected and changes no stored state; an *)
(* accepted DELETE without force=true on a user keeps the row and sets its *)
(* status to inactive.                                                     *)
(***************************************************************************)
\* the table a DELETE of the trashable kinds addresses, before and after the step
C24_Before(op) ==
    CASE op = "comments.delete" -> comments
      [] op = "moments.delete" -> moments
      [] OTHER -> posts

C24_After(op) ==
    CASE op = "comments.delete" -> comments'
      [] op = "moments.delete" -> moments'
      [] OTHER -> posts'

C24_DeleteStep ==
    LET op == req'.op
    IN  /\ (/\ op \in {"posts.delete", "pages.delete", "moments.delete", "comments.delete"}
            /\ resp'.status = 200)
           => IF req'.force
              THEN /\ req'.id \in DOMAIN C24_Before(op)
                   /\ req'.id \notin DOMAIN C24_After(op)
              ELSE /\ req'.id \in DOMAIN C24_Before(op)
                   /\ C24_After(op) =
                          With(C24_Before(op), req'.id,
                               [C24_Before(op)[req'.id] EXCEPT !.status = "trash"])
        /\ (op \in {"categories.delete", "tags.delete", "media.delete"} /\ ~req'.force)
           => /\ resp'.status >= 400
              /\ UNCHANGED stored
        /\ (op = "users.delete" /\ ~req'.force /\ resp'.status = 200)
           => /\ req'.id \in DOMAIN users
              /\ users' = With(users, req'.id, [users[req'.id] EXCEPT !.status = "inactive"])

C24_TrashOrRemove == [][C24_DeleteStep]_vars

\* the post was removed, the page, a moment and the subscriber were trashed or
\* deactivated, and the DELETE of an upload without force=true was just rejected
C24_Witness ==
    /\ 1 \notin DOMAIN posts
    /\ 2 \in DOMAIN posts /\ posts[2].status = "trash"
    /\ \E m \in DOMAIN moments : moments[m].status = "trash"
    /\ users[5].status = "inactive"
    /\ req.op = "media.delete" /\ ~req.force /\ req.id \in DOMAIN media
    /\ resp.status = 501

(***************************************************************************)
(* C25: a successful PUT /posts/:id changes only the fields the body names *)
(* and two fields derived from them: the excerpt is regenerated from the   *)
(* new content when content is supplied without excerpt, and published_at  *)
(* is set to the time of the request when status publish is supplied and   *)
(* published_at was null.  Every other stored field, and the category and  *)
(* tag links when categories / tags are not supplied, keep their values.   *)
(***************************************************************************)
\* the stored fields of a post row the body of the request names
C25_Supplied(body) ==
    {f \in {"title", "content", "slug", "status"} :
        body[f] # (IF f \in {"title", "slug"} THEN UndefinedText ELSE Undefined)}
    \cup (IF HasExcerpt(body) THEN {"excerpt"} ELSE {})

C25_Succeeds == req'.op = "posts.update" /\ resp'.status = 200

C25_LinksKept(id, body) ==
    /\ body.categories = NoList =>
           {l \in postCategories' : l[1] = id} = {l \in postCategories : l[1] = id}
    /\ body.tags = NoList => {l \in postTags' : l[1] = id} = {l \in postTags : l[1] = id}

\* the fields posts.put derives from the supplied ones
C25_Derived(body, before) ==
    (IF body.content # Undefined /\ ~HasExcerpt(body) THEN {"excerpt"} ELSE {})
    \cup (IF body.status = "publish" /\ before.published_at = 0
          THEN {"published_at"} ELSE {})

C25_UpdateStep ==
    C25_Succeeds =>
        LET id == req'.id
            body == req'.body
            before == posts[id]
            after == posts'[id]
        IN  /\ id \in DOMAIN posts /\ id \in DOMAIN posts'
            /\ \A f \in DOMAIN before \ (C25_Supplied(body) \cup C25_Derived(body, before)) :
                   after[f] = before[f]
            /\ "excerpt" \in C25_Derived(body, before) =>
                   after.excerpt \in {generateExcerptWithAI(a, body.content) : a \in AiExcerpts}
            /\ "published_at" \in C25_Derived(body, before) => after.published_at = now
            /\ \A p \in DOMAIN posts \ {id} : p \in DOMAIN posts' /\ posts'[p] = posts[p]
            /\ C25_LinksKept(id, body)

C25_PartialUpdate == [][C25_UpdateStep]_vars

\* as stated: no field outside the body changes
C25_NamedOnlyStep ==
    C25_Succeeds =>
        LET id == req'.id
        IN  /\ \A f \in DOMAIN posts[id] \ C25_Supplied(req'.body) :
                   posts'[id][f] = posts[id][f]
            /\ C25_LinksKept(id, req'.body)

C25_Original == [][C25_NamedOnlyStep]_vars

\* a content-only update has just replaced the excerpt of a filed post
C25_Witness ==
    /\ req.op = "posts.update" /\ resp.status = 200
    /\ req.body.content # Undefined /\ ~HasExcerpt(req.body)
    /\ posts[req.id].excerpt = "A summary written by the model."
    /\ posts[req.id].content = req.body.content
    /\ <<req.id, 1>> \in postCategories /\ <<req.id, 1>> \in postTags

(***************************************************************************)
(* C26: pages obey the authorization model of posts: a contributor or      *)
(* subscriber never creates or updates a page so that its status becomes   *)
(* publish, and a caller who is neither administrator nor editor updates   *)
(* or deletes a page only when the page's author_id is the caller's id.    *)
(***************************************************************************)
\* the pages whose row the step wrote or removed
C26_Touched ==
    {id \in DOMAIN posts : posts[id].post_type = "page"
                           /\ (id \notin DOMAIN posts' \/ posts'[id] # posts[id])}

\* the pages the step has published
C26_Published ==
    {id \in DOMAIN posts' :
        /\ posts'[id].post_type = "page" /\ posts'[id].status = "publish"
        /\ (id \in DOMAIN posts => posts[id].status # "publish")}

C26_PageStep ==
    LET caller == contextUser(req'.token)
    IN  (req'.op \in {"pages.create", "pages.update", "pages.delete"} /\ caller # NoUser) =>
            /\ caller.role \in {"contributor", "subscriber"} => C26_Published = {}
            /\ caller.role \notin {"administrator", "editor"} =>
                   \A id \in C26_Touched : posts[id].author_id = caller.userId

C26_PagesAuthorized == [][C26_PageStep]_vars

(***************************************************************************)
(* C27: over any execution at most one register call creates a user with   *)
(* role administrator.  users.id is AUTOINCREMENT and the first row can    *)
(* only come from register, so a register call that creates an             *)
(* administrator must be the one that inserts id 1.                        *)
(***************************************************************************)
C27_RegistersAdministrator ==
    /\ req'.op = "users.register"
    /\ resp'.status = 201
    /\ nextUserId' = nextUserId + 1
    /\ users'[nextUserId].role = "administrator"

C27_RegisterStep == C27_RegistersAdministrator => nextUserId = 1

C27_OneAdministratorByRegister == [][C27_RegisterStep]_vars

(***************************************************************************)
(* C28: after an administrator has deactivated or force-deleted a user, or *)
(* changed the user's role, no request carrying a token issued to that     *)
(* user before is authorized with the old role: a request that writes to   *)
(* the store carries the token of an existing, active user, and the role   *)
(* that lets it pass is the role the user's row holds.                     *)
(***************************************************************************)
\* the request of the step carries a bearer token and has written to the store
C28_Writes == req'.token.kind = "jwt" /\ stored' # stored

C28_TokenStep ==
    LET caller == contextUser(req'.token)
    IN  C28_Writes =>
            /\ caller.userId \in DOMAIN users
            /\ users[caller.userId].status = "active"
            /\ users[caller.userId].role = caller.role

C28_TokensFollowAccount == [][C28_TokenStep]_vars

(***************************************************************************)
(* C29: in every state after the first registration at least one user with *)
(* role administrator and status active exists.                            *)
(***************************************************************************)
C29_ActiveAdministrators ==
    {i \in DOMAIN users : users[i].role = "administrator" /\ users[i].status = "active"}

C29_AdministratorRemains == nextUserId > 1 => C29_ActiveAdministrators # {}

(***************************************************************************)
(* C30: once no request is in flight, comment_count of every post equals   *)
(* the number of comment rows stored for the post, and it is never         *)
(* negative.                                                               *)
(***************************************************************************)
C30_Rows(p) == {k \in DOMAIN comments : comments[k].post_id = p}

C30_Quiet == \A c \in Clients : inflight[c] = Idle

C30_CountMatchesRows ==
    /\ \A p \in DOMAIN posts : posts[p].comment_count >= 0
    /\ C30_Quiet => \A p \in DOMAIN posts : posts[p].comment_count = Cardinality(C30_Rows(p))
====
